---- MODULE Spec2Model ----
(***************************************************************************)
(* A model of dagrun: the service lifecycle manager (src/src/service.rs),  *)
(* the task graph (src/src/dag.rs) and the executor (src/src/executor.rs). *)
(*                                                                         *)
(* Every tokio lock section (services.write().await / .read().await) is    *)
(* one atomic step; the awaits between two sections are the points where   *)
(* other tasks of the runtime interleave.                                  *)
(***************************************************************************)
EXTENDS Integers, Sequences, FiniteSets, TLC

\* ------------------------------------------------------------------ bounds
\* service processes that exist at the same time (running, or exited and not
\* yet reaped because a Child handle still names them)
MaxProcs == 2
\* Kubernetes Jobs created during a run
MaxJobs == 2
\* manifest applications tracked during a run
MaxApplied == 2
\* SSH sessions connected during a run
MaxSessions == 3
\* the port forwards a K8s task configures
MaxForwards == 2

\* ------------------------------------------------------------- identities
Main == "main"
Clients == {"c1", "c2"}
Services == {"db", "cache", "ext"}
\* the tasks of the configurations of the model; a task spawned by the executor
\* is named by its task
AllTasks == {"a", "b", "c", "db", "cache", "ext"}
Procs == Clients \cup AllTasks \cup {Main}

NoChild == 0

\* service.rs:19-26, ServiceState (the Failed message is not kept)
ServiceState == {"Stopped", "Starting", "Ready", "Failed", "Stopping"}

\* The [service] configuration of the three services of the model:
\* db    - Managed, local, readiness check `cmd:...`, preflight command
\* cache - Managed, local, no readiness check
\* ext   - External, readiness check `tcp:...`, no run command
ServiceConfig(s) ==
    CASE s = "db"    -> [kind |-> "Managed",  ready |-> TRUE,  preflight |-> TRUE,
                         check |-> "cmd"]
      [] s = "cache" -> [kind |-> "Managed",  ready |-> FALSE, preflight |-> FALSE,
                         check |-> "none"]
      [] s = "ext"   -> [kind |-> "External", ready |-> TRUE,  preflight |-> FALSE,
                         check |-> "tcp"]

IsManaged(s) == ServiceConfig(s).kind = "Managed"

VARIABLES
    registered,   \* keys of ServiceManager.services
    state,        \* ServiceInstance.state, per service
    ref_count,    \* ServiceInstance.ref_count
    child,        \* ServiceInstance.child: pid of the held handle, or NoChild
    procs,        \* the operating system's process table: per pid "free", or
                  \* the service the process was spawned for and whether it runs
    pc,           \* position of each concurrent task in its code
    cur,          \* the `name` argument of the call a task is in
    local_child,  \* a Child held in a local variable (start_service / stop_service)
    acq_result,   \* what the last acquire() of a task returned
    held,         \* per task and service: acquire() calls that bumped ref_count
                  \* minus release() calls (history, not program state)
    todo,         \* shutdown(): the names still to stop
    config,       \* Config.tasks: task name -> Task
    dag_result,   \* what TaskGraph::from_config returned: "none" before the call
    graph,        \* TaskGraph.graph: the edges of the DiGraph (nodes: DOMAIN config)
    order,        \* the Vec execution_order_for returned, as task names
    groups,       \* the Vec parallel_groups returned, each level as a set of names
    call,         \* the entry point the driver uses, its target and argument count
    idx,          \* the driver's position in the order or in the levels
    results,      \* the Vec<TaskResult> the run is building
    outputs,      \* the Pipe Store: task name -> stored output
    dep_i,        \* per task: position in service_deps of the acquire / release loop
    attempt,      \* per task: the loop variable of execute_with_retry
    stdin,        \* per task: the stdin collected from the Pipe Store
    wres,         \* per task: its TaskResult, once it has one
    runs,         \* per task: invocations of execute_once (history)
    children,     \* per task: the processes its local runner spawned and the
                  \* temporary script files it created that exist (history),
                  \* and how many of them still run though the attempt that
                  \* spawned them has returned
    ssh_sessions, \* the SessionCache: destination -> cached session, or NoSession
    opened,       \* every SSH session connected so far: session -> the
                  \* destination and port it was connected to (history)
    key,          \* get_session: the destination and the port of the config
                  \* of the call a task is in
    session,      \* the Arc<Session> a task holds in a local variable
    streams,      \* the sessions held by the spawned task of a streaming command
    jobs,         \* K8sResourceTracker.jobs: the names of the tracked Jobs
    applied,      \* K8sResourceTracker.applied: the paths of the tracked manifests
    cluster,      \* the cluster: the Jobs and the applied manifests that exist
    created,      \* the Jobs created so far (history)
    deleted,      \* the resources cleanup_all went through, in order (history)
    job_name,     \* run_job: the Job of the call a task is in, or NoJob
    k8s_result,   \* run_job: how the wait for the Job's completion ended
    task_bindings, \* per task: the value apply_bindings gave each of its
                  \* parameters for the run of its command
    ready_check,  \* ServiceConfig.ready of the remote service
    port_forward, \* ServiceInstance.port_forward: the tunnel's local port, or NoPort
    remote_state, \* ServiceInstance.state of the remote service
    env_vars,     \* per consumer: the env vars its last acquire() returned
    polled,       \* per consumer: the check its wait_for_ready polls
    port_forward_handles, \* k8s::execute, per task: the Child handles in its Vec
    forwarders    \* per task: the kubectl port-forward processes it spawned
                  \* that are running (the operating system's view)

svcVars == <<registered, state, ref_count, child, procs, pc, cur, local_child,
             acq_result, held, todo>>

dagVars == <<config, dag_result, graph, order, groups>>
execVars == <<call, idx, results, outputs, dep_i, attempt, stdin, wres, runs,
              children>>
sshVars == <<ssh_sessions, opened, key, session, streams>>
k8sVars == <<jobs, applied, cluster, created, deleted, job_name, k8s_result>>
\* what the executor holds besides the services, the graph and the state of
\* the run: the SSH sessions, the Kubernetes resources, the bound parameters
envVars == <<ready_check, port_forward, remote_state, env_vars, polled>>
runnerVars == <<port_forward_handles, forwarders>>
auxVars == <<sshVars, k8sVars, task_bindings, envVars, runnerVars>>
vars == <<svcVars, dagVars, execVars, auxVars>>

\* ------------------------------------------------------- pure helpers
\* usize::saturating_sub(1), service.rs:156
SaturatingSub(n) == IF n > 0 THEN n - 1 ELSE 0

\* release that stops a Managed service on every call
ShouldStopIgnoringCount(rc, s) == IsManaged(s)

\* release that stops a service of any kind when the count hit zero
ShouldStopAnyKind(rc, s) == rc = 0
\* service.rs:157: stop when the count hit zero and the service is Managed
ShouldStop(rc, s) == rc = 0 /\ IsManaged(s)

\* wait_for_ready entry, service.rs:385-394: with no readiness check the service
\* is marked Ready at once, otherwise the polling loop is entered
WaitPc(s) == IF ServiceConfig(s).ready THEN "wait_loop" ELSE "wait_noready"

\* acquire's match on the snapshot, service.rs:117-138: where the task goes next
Dispatch(st, s) ==
    CASE st = "Ready"    -> "acq_return"
      [] st = "Failed"   -> "acq_done"
      [] st = "Stopped"  -> "start_mark"
      [] st = "Starting" -> WaitPc(s)
      [] st = "Stopping" -> "acq_done"

\* the Err(..) acquire returns straight from the match, or "pending"
DispatchResult(st) ==
    CASE st = "Failed"   -> "err_failed"
      [] st = "Stopping" -> "err_stopping"
      [] OTHER           -> "pending"

Pids == 1..MaxProcs
Free == [svc |-> "none", running |-> FALSE]
FreePids == {i \in Pids : procs[i] = Free}
\* the pid the operating system hands out next
NewPid == CHOOSE i \in FreePids : \A j \in FreePids : i <= j

LiveProcs(s) == {i \in Pids : procs[i].svc = s /\ procs[i].running}

\* An exited process leaves the table once no Child handle names it (the handle
\* was dropped, or wait() reaped it); a running one stays, handle or not:
\* dropping a tokio Child does not kill the process.
Reap(table, handles) ==
    [i \in Pids |-> IF ~table[i].running /\ i \notin handles THEN Free ELSE table[i]]

Handles(ch, lc) == {ch[s] : s \in Services} \cup {lc[p] : p \in Procs}

\* ----------------------------------------------------- ServiceManager steps
\* acquire, first lock section (service.rs:101-108): bump ref_count
AcquireBump(p, s) ==
    /\ cur' = [cur EXCEPT ![p] = s]
    /\ IF s \in registered
       THEN /\ ref_count' = [ref_count EXCEPT ![s] = @ + 1]
            /\ held' = [held EXCEPT ![p][s] = @ + 1]
            /\ pc' = [pc EXCEPT ![p] = "acq_snapshot"]
            /\ acq_result' = [acq_result EXCEPT ![p] = "pending"]
       ELSE /\ pc' = [pc EXCEPT ![p] = "acq_done"]
            /\ acq_result' = [acq_result EXCEPT ![p] = "err_unregistered"]
            /\ UNCHANGED <<ref_count, held>>
    /\ UNCHANGED <<registered, state, child, procs, local_child, todo>>

\* acquire, second lock section (service.rs:111-138): snapshot state, dispatch
AcquireSnapshot(p) ==
    /\ pc[p] = "acq_snapshot"
    /\ pc' = [pc EXCEPT ![p] = Dispatch(state[cur[p]], cur[p])]
    /\ acq_result' = [acq_result EXCEPT ![p] = DispatchResult(state[cur[p]])]
    /\ UNCHANGED <<registered, state, ref_count, child, procs, cur, local_child,
                   held, todo>>

\* start_service, service.rs:171-181: mark Starting; External only polls
StartMark(p) ==
    /\ pc[p] = "start_mark"
    /\ state' = [state EXCEPT ![cur[p]] = "Starting"]
    /\ pc' = [pc EXCEPT ![p] = IF IsManaged(cur[p]) THEN "start_spawn"
                                                    ELSE WaitPc(cur[p])]
    /\ UNCHANGED <<registered, ref_count, child, procs, cur, local_child,
                   acq_result, held, todo>>

\* start_service, service.rs:193-217: preflight, then spawn `sh -c <run>`.
\* A failing preflight or spawn returns Err and leaves the state as it is.
StartSpawn(p) ==
    /\ pc[p] = "start_spawn"
    /\ \/ /\ ServiceConfig(cur[p]).preflight
          /\ pc' = [pc EXCEPT ![p] = "acq_done"]
          /\ acq_result' = [acq_result EXCEPT ![p] = "err_preflight"]
          /\ UNCHANGED <<procs, local_child>>
       \/ /\ pc' = [pc EXCEPT ![p] = "acq_done"]
          /\ acq_result' = [acq_result EXCEPT ![p] = "err_spawn"]
          /\ UNCHANGED <<procs, local_child>>
       \/ /\ FreePids # {}
          /\ procs' = [procs EXCEPT ![NewPid] = [svc |-> cur[p], running |-> TRUE]]
          /\ local_child' = [local_child EXCEPT ![p] = NewPid]
          /\ pc' = [pc EXCEPT ![p] = "start_store"]
          /\ UNCHANGED acq_result
    /\ UNCHANGED <<registered, state, ref_count, child, cur, held, todo>>

\* start_service, service.rs:249-257: store the child handle, go polling
StartStore(p) ==
    /\ pc[p] = "start_store"
    /\ child' = [child EXCEPT ![cur[p]] = local_child[p]]
    /\ local_child' = [local_child EXCEPT ![p] = NoChild]
    /\ procs' = Reap(procs, Handles(child', local_child'))
    /\ pc' = [pc EXCEPT ![p] = WaitPc(cur[p])]
    /\ UNCHANGED <<registered, state, ref_count, cur, acq_result, held, todo>>

\* wait_for_ready without a readiness check, service.rs:387-394
WaitNoCheck(p) ==
    /\ pc[p] = "wait_noready"
    /\ state' = [state EXCEPT ![cur[p]] = "Ready"]
    /\ pc' = [pc EXCEPT ![p] = "acq_return"]
    /\ UNCHANGED <<registered, ref_count, child, procs, cur, local_child,
                   acq_result, held, todo>>

\* the child handle is held and its process has exited (child.try_wait())
ChildExited(s) == child[s] # NoChild /\ ~procs[child[s]].running

\* wait_for_ready, service.rs:409 and 450-457: the deadline has passed, the
\* loop ends and the service is marked Failed
WaitTimeout(p) ==
    /\ pc[p] = "wait_loop"
    /\ state' = [state EXCEPT ![cur[p]] = "Failed"]
    /\ pc' = [pc EXCEPT ![p] = "acq_done"]
    /\ acq_result' = [acq_result EXCEPT ![p] = "err_timeout"]
    /\ UNCHANGED <<registered, ref_count, child, procs, cur, local_child, held, todo>>

\* wait_for_ready, service.rs:413-424: the crash check under the write lock
\* finds the child exited
WaitCrashed(p) ==
    /\ pc[p] = "wait_loop"
    /\ ChildExited(cur[p])
    /\ state' = [state EXCEPT ![cur[p]] = "Failed"]
    /\ pc' = [pc EXCEPT ![p] = "acq_done"]
    /\ acq_result' = [acq_result EXCEPT ![p] = "err_exited"]
    /\ UNCHANGED <<registered, ref_count, child, procs, cur, local_child, held, todo>>

\* wait_for_ready, service.rs:413-433: no crash, the readiness probe is issued
WaitPoll(p) ==
    /\ pc[p] = "wait_loop"
    /\ ~ChildExited(cur[p])
    /\ pc' = [pc EXCEPT ![p] = "wait_check"]
    /\ UNCHANGED <<registered, state, ref_count, child, procs, cur, local_child,
                   acq_result, held, todo>>

\* wait_for_ready, head of the polling loop (service.rs:409-424, 450-457):
\* the deadline has passed -> Failed; else the crash check under the write lock
WaitLoop(p) == WaitTimeout(p) \/ WaitCrashed(p) \/ WaitPoll(p)

\* check_readiness, service.rs:461-498: check_http and check_tcp answer within
\* their own timeout of 5 s; check_command awaits the end of `sh -c <cmd>`,
\* however long that takes
ProbeBounded(s) == ServiceConfig(s).check \in {"http", "tcp"}

\* wait_for_ready, service.rs:433-447: the readiness probe answers; on success
\* the state is set to Ready, else sleep(interval) and loop
WaitCheck(p) ==
    /\ pc[p] = "wait_check"
    /\ \/ /\ state' = [state EXCEPT ![cur[p]] = "Ready"]
          /\ pc' = [pc EXCEPT ![p] = "acq_return"]
       \/ /\ pc' = [pc EXCEPT ![p] = "wait_loop"]
          /\ UNCHANGED state
    /\ UNCHANGED <<registered, ref_count, child, procs, cur, local_child,
                   acq_result, held, todo>>

\* acquire, last lock section (service.rs:119-123, 140-148): build the env vars
AcquireReturn(p) ==
    /\ pc[p] = "acq_return"
    /\ pc' = [pc EXCEPT ![p] = "acq_done"]
    /\ acq_result' = [acq_result EXCEPT ![p] = "ok"]
    /\ UNCHANGED <<registered, state, ref_count, child, procs, cur, local_child,
                   held, todo>>

\* release, service.rs:153-165: decrement, decide whether to stop
ReleaseDecrement(p, s) ==
    /\ cur' = [cur EXCEPT ![p] = s]
    /\ IF s \in registered
       THEN /\ ref_count' = [ref_count EXCEPT ![s] = SaturatingSub(@)]
            /\ held' = [held EXCEPT ![p][s] = SaturatingSub(@)]
            /\ pc' = [pc EXCEPT ![p] =
                        IF ShouldStop(SaturatingSub(ref_count[s]), s)
                        THEN "stop_begin" ELSE "rel_done"]
       ELSE /\ pc' = [pc EXCEPT ![p] = "rel_done"]
            /\ UNCHANGED <<ref_count, held>>
    /\ UNCHANGED <<registered, state, child, procs, local_child, acq_result, todo>>

\* stop_service, service.rs:502-533: mark Stopping and take the handle
StopBegin(p) ==
    /\ pc[p] = "stop_begin"
    /\ state' = [state EXCEPT ![cur[p]] = "Stopping"]
    /\ local_child' = [local_child EXCEPT ![p] = child[cur[p]]]
    /\ child' = [child EXCEPT ![cur[p]] = NoChild]
    /\ pc' = [pc EXCEPT ![p] = IF child[cur[p]] = NoChild THEN "stop_end"
                                                         ELSE "stop_kill"]
    /\ UNCHANGED <<registered, ref_count, procs, cur, acq_result, held, todo>>

\* stop_service, service.rs:537-563: SIGTERM, wait, SIGKILL, wait
StopKill(p) ==
    /\ pc[p] = "stop_kill"
    /\ procs' = [procs EXCEPT ![local_child[p]].running = FALSE]
    /\ pc' = [pc EXCEPT ![p] = "stop_end"]
    /\ UNCHANGED <<registered, state, ref_count, child, cur, local_child,
                   acq_result, held, todo>>

\* stop_service, service.rs:526-533 and 565-571: mark Stopped, return to the
\* caller (release, or the loop of shutdown)
StopEnd(p) ==
    /\ pc[p] = "stop_end"
    /\ state' = [state EXCEPT ![cur[p]] = "Stopped"]
    /\ local_child' = [local_child EXCEPT ![p] = NoChild]
    /\ procs' = Reap(procs, Handles(child, local_child'))
    /\ pc' = [pc EXCEPT ![p] = IF p = Main THEN "shut_loop" ELSE "rel_done"]
    /\ UNCHANGED <<registered, ref_count, child, cur, acq_result, held, todo>>


\* shutdown, service.rs:627-637: collect the Managed services not Stopped
ShutdownCollect ==
    /\ pc[Main] = "closing"
    /\ todo' = {s \in registered : IsManaged(s) /\ state[s] # "Stopped"}
    /\ pc' = [pc EXCEPT ![Main] = "shut_loop"]
    /\ UNCHANGED <<registered, state, ref_count, child, procs, cur, local_child,
                   acq_result, held>>

\* shutdown, service.rs:639-641: stop them one after the other
ShutdownNext ==
    /\ pc[Main] = "shut_loop"
    /\ IF todo = {}
       THEN /\ pc' = [pc EXCEPT ![Main] = "closed"]
            /\ cur' = [cur EXCEPT ![Main] = "none"]
            /\ UNCHANGED todo
       ELSE \E s \in todo :
            /\ todo' = todo \ {s}
            /\ cur' = [cur EXCEPT ![Main] = s]
            /\ pc' = [pc EXCEPT ![Main] = "stop_begin"]
    /\ UNCHANGED <<registered, state, ref_count, child, procs, local_child,
                   acq_result, held>>

\* a service process exits on its own
ChildExit ==
    /\ \E i \in Pids :
        /\ procs[i].running
        /\ procs' = Reap([procs EXCEPT ![i].running = FALSE],
                         Handles(child, local_child))
    /\ UNCHANGED <<registered, state, ref_count, child, pc, cur, local_child,
                   acq_result, held, todo>>

\* a step of the Service Manager leaves the graph alone
OnlySvc(A) == A /\ UNCHANGED <<auxVars, dagVars, execVars>>

\* ------------------------------------------------------- SSH session cache
\* the destinations of the model: SshConfig::destination(), `user@host`
NoPort == 0
\* the [ssh] configurations of the model (semantic.rs:124-133): one host, with
\* and without a user, with and without a port
SshConfigs ==
    {[user |-> u, host |-> "h1", port |-> pt] : u \in {"none", "u"}, pt \in {NoPort, 2222}}
\* SshConfig::destination, semantic.rs:135-142: "user@host" or "host"
Destination(c) == IF c.user = "none" THEN c.host ELSE c.user \o "@" \o c.host
\* the keys of the SessionCache
Dests == {Destination(c) : c \in SshConfigs}
NoSession == 0
Sids == 1..MaxSessions
\* no call, no session: nothing it was keyed by or connected to
NoKey == [dest |-> "none", port |-> NoPort]

\* the session a successful connect() creates: the first one never used
FreshSids == {i \in Sids : opened[i] = NoKey}
NewSid == CHOOSE i \in FreshSids : \A j \in FreshSids : i <= j

\* the Arc<Session> clones alive for a session: the cache entry, the local
\* variables of the callers, the spawned task of a streaming command
ArcCount(i) ==
    Cardinality({d \in Dests : ssh_sessions[d] = i})
    + Cardinality({p \in Procs : session[p] = i})
    + (IF i \in streams THEN 1 ELSE 0)

\* a session is closed when its last Arc is dropped (ssh.rs:232-234)
IsOpen(i) == opened[i] # NoKey /\ ArcCount(i) > 0

\* get_session, ssh.rs:35-43: look the destination of the config up under
\* the read lock
GetSessionCheck(p, c) ==
    /\ pc[p] = "idle"
    /\ key' = [key EXCEPT ![p] = [dest |-> Destination(c), port |-> c.port]]
    /\ IF ssh_sessions[Destination(c)] # NoSession
       THEN /\ session' = [session EXCEPT ![p] = ssh_sessions[Destination(c)]]
            /\ pc' = [pc EXCEPT ![p] = "ssh_got"]
       ELSE /\ pc' = [pc EXCEPT ![p] = "ssh_connect"]
            /\ UNCHANGED session
    /\ UNCHANGED <<ssh_sessions, opened, streams>>

\* get_session, ssh.rs:46-69: builder.port(config.port) and
\* builder.connect(destination); an error is returned with `?`
GetSessionConnect(p) ==
    /\ pc[p] = "ssh_connect"
    /\ \/ /\ FreshSids # {}
          /\ opened' = [opened EXCEPT ![NewSid] = key[p]]
          /\ session' = [session EXCEPT ![p] = NewSid]
          /\ pc' = [pc EXCEPT ![p] = "ssh_insert"]
          /\ UNCHANGED key
       \/ /\ pc' = [pc EXCEPT ![p] = "idle"]
          /\ key' = [key EXCEPT ![p] = NoKey]
          /\ UNCHANGED <<opened, session>>
    /\ UNCHANGED <<ssh_sessions, streams>>

\* get_session, ssh.rs:72-78: insert under the write lock, return the session
GetSessionInsert(p) ==
    /\ pc[p] = "ssh_insert"
    /\ ssh_sessions' = [ssh_sessions EXCEPT ![key[p].dest] = session[p]]
    /\ pc' = [pc EXCEPT ![p] = "ssh_got"]
    /\ UNCHANGED <<opened, key, session, streams>>

\* start_remote_service, service.rs:312-321 and spawn_streaming_command,
\* ssh.rs:191-226: a clone of the session moves into the spawned task that
\* runs `tail -f` on the service's log
SpawnStreamingCommand(p) ==
    /\ pc[p] = "ssh_got"
    /\ session[p] \notin streams
    /\ streams' = streams \cup {session[p]}
    /\ UNCHANGED <<ssh_sessions, opened, key, session, pc>>

\* spawn_streaming_command, ssh.rs:205-207 and 211-224: the spawn fails or
\* the remote command ends; the spawned task returns and drops its clone
StreamEnds(i) ==
    /\ i \in streams
    /\ streams' = streams \ {i}
    /\ UNCHANGED <<ssh_sessions, opened, key, session, pc>>

\* the caller of get_session returns (executor.rs:579-640, service.rs:261-384
\* and 575-623): its local Arc<Session> is dropped
SessionDrop(p) ==
    /\ pc[p] = "ssh_got"
    /\ session' = [session EXCEPT ![p] = NoSession]
    /\ key' = [key EXCEPT ![p] = NoKey]
    /\ pc' = [pc EXCEPT ![p] = "idle"]
    /\ UNCHANGED <<ssh_sessions, opened, streams>>

\* close_sessions, ssh.rs:229-235: drain the cache under the write lock
CloseSessions ==
    /\ ssh_sessions' = [d \in Dests |-> NoSession]
    /\ UNCHANGED <<opened, key, session, streams>>

\* ssh::new_session_cache, ssh.rs:26-28 (Executor::new, executor.rs:76)
NewSessionCache ==
    /\ ssh_sessions = [d \in Dests |-> NoSession]
    /\ opened = [i \in Sids |-> NoKey]
    /\ key = [p \in Procs |-> NoKey]
    /\ session = [p \in Procs |-> NoSession]
    /\ streams = {}

OnlySsh(A) ==
    A /\ UNCHANGED <<registered, state, ref_count, child, procs, cur, local_child,
                     acq_result, held, todo, k8sVars, task_bindings, envVars, runnerVars,
                     dagVars, execVars>>

\* ------------------------------------------- clients of the Service Manager
\* A consumer that holds nothing calls acquire(s) (service.rs:894) ...
ClientAcquire(p, s) ==
    /\ pc[p] = "idle"
    /\ \A x \in Services : held[p][x] = 0
    /\ AcquireBump(p, s)

\* ... gets the answer ...
ClientAcquired(p) ==
    /\ pc[p] = "acq_done"
    /\ pc' = [pc EXCEPT ![p] = "idle"]
    /\ acq_result' = [acq_result EXCEPT ![p] = "none"]
    /\ cur' = [cur EXCEPT ![p] = "none"]
    /\ UNCHANGED <<registered, state, ref_count, child, procs, local_child,
                   held, todo>>

\* ... and calls release(s) for its acquire(s), whatever the answer was
\* (service.rs:898, executor.rs:205-207)
ClientRelease(p, s) ==
    /\ pc[p] = "idle"
    /\ held[p][s] > 0
    /\ ReleaseDecrement(p, s)

ClientReleased(p) ==
    /\ pc[p] = "rel_done"
    /\ pc' = [pc EXCEPT ![p] = "idle"]
    /\ cur' = [cur EXCEPT ![p] = "none"]
    /\ UNCHANGED <<registered, state, ref_count, child, procs, local_child,
                   acq_result, held, todo>>

InitManager(mainpc) ==
    /\ state = [s \in Services |-> "Stopped"]
    /\ ref_count = [s \in Services |-> 0]
    /\ child = [s \in Services |-> NoChild]
    /\ procs = [i \in Pids |-> Free]
    /\ pc = [p \in Procs |-> IF p = Main THEN mainpc ELSE "idle"]
    /\ cur = [p \in Procs |-> "none"]
    /\ local_child = [p \in Procs |-> NoChild]
    /\ acq_result = [p \in Procs |-> "none"]
    /\ held = [p \in Procs |-> [s \in Services |-> 0]]
    /\ todo = {}

\* ================================================================ dag.rs
TaskNames == DOMAIN config
DagTasks == {"a", "b", "c"}

\* a Task record (semantic.rs:44-73), the fields the model reads
\* (run: the task has a command; timeout: the task has a timeout; shebang:
\* the command starts with a #! line)
PlainTask(deps) ==
    [depends_on |-> deps, service_deps |-> <<>>, pipe_from |-> <<>>,
     retry |-> 0, join |-> FALSE, service |-> FALSE, parameters |-> <<>>,
     run |-> TRUE, timeout |-> FALSE, shebang |-> FALSE]
ServiceTask ==
    [depends_on |-> {}, service_deps |-> <<>>, pipe_from |-> <<>>,
     retry |-> 0, join |-> FALSE, service |-> TRUE, parameters |-> <<>>,
     run |-> TRUE, timeout |-> FALSE, shebang |-> FALSE]

\* Task::is_join, semantic.rs:76-78
IsJoin(task) == task.join \/ ~task.run

\* from_config, dag.rs:36-42: add_edge(dep_idx, task_idx) for every dep of
\* every task; an edge is <<from, to>>
AddEdgeReversed(dep, task) == <<task, dep>>
AddEdge(dep, task) == <<dep, task>>
\* from_config that skips a task's dependency on itself
AddEdgesSkippingSelf(cfg) ==
    {AddEdge(e[1], e[2]) :
        e \in {x \in (DOMAIN cfg) \X (DOMAIN cfg) :
                  x[1] \in cfg[x[2]].depends_on /\ x[1] # x[2]}}
AddEdges(cfg) ==
    {AddEdge(e[1], e[2]) :
        e \in {x \in (DOMAIN cfg) \X (DOMAIN cfg) : x[1] \in cfg[x[2]].depends_on}}

\* neighbors_directed(node, Incoming)
Incoming(E, n) == {e[1] : e \in {x \in E : x[2] = n}}

\* petgraph::algo::is_cyclic_directed as called at dag.rs:44: nodes with no
\* incoming edge from a remaining node are removed until none is left to
\* remove; a remainder is (or hangs below) a cycle
RECURSIVE Peel(_, _)
Peel(N, E) ==
    LET free == {n \in N : Incoming(E, n) \cap N = {}}
    IN  IF free = {} THEN N ELSE Peel(N \ free, E)
IsCyclicDirected(N, E) == Peel(N, E) # {}

\* petgraph::algo::toposort as called at dag.rs:57 and 81: some order of all
\* nodes in which every edge points forward (which one is the library's
\* choice and depends on the HashMap's iteration order); none if cyclic
RECURSIVE Perms(_)
Perms(S) ==
    IF S = {} THEN {<<>>}
    ELSE UNION {{<<x>> \o s : s \in Perms(S \ {x})} : x \in S}
Pos(s, x) == CHOOSE i \in 1..Len(s) : s[i] = x
Toposort(N, E) == {s \in Perms(N) : \A e \in E : Pos(s, e[1]) < Pos(s, e[2])}

\* collect_ancestors, dag.rs:93-103: depth-first along incoming edges, a node
\* is entered once
RECURSIVE VisitAll(_, _, _)
VisitAll(E, pending, visited) ==
    IF pending = {} THEN visited
    ELSE LET n == CHOOSE x \in pending : TRUE
         IN  IF n \in visited
             THEN VisitAll(E, pending \ {n}, visited)
             ELSE VisitAll(E, pending \ {n},
                           VisitAll(E, Incoming(E, n), visited \cup {n}))
\* collect_ancestors that stops at the direct dependencies
CollectParentsOnly(E, node) == Incoming(E, node)
CollectAncestors(E, node) == VisitAll(E, Incoming(E, node), {})

\* execution_order_for, dag.rs:76-90: the toposort filtered to the required nodes
Required(E, target) == CollectAncestors(E, target) \cup {target}
\* an order that names every required task twice
FilterOrderRepeating(sorted, required) ==
    SelectSeq(sorted, LAMBDA n : n \in required)
        \o SelectSeq(sorted, LAMBDA n : n \in required)
FilterOrder(sorted, required) == SelectSeq(sorted, LAMBDA n : n \in required)

\* parallel_groups that emits one ready node per level
ReadyNodesOneByOne(N, E, completed) ==
    LET ready == {n \in N \ completed : Incoming(E, n) \subseteq completed}
    IN  IF ready = {} THEN {} ELSE {CHOOSE n \in ready : TRUE}
\* parallel_groups, dag.rs:110-140: the loop that emits the ready nodes
ReadyNodes(N, E, completed) ==
    {n \in N \ completed : Incoming(E, n) \subseteq completed}
RECURSIVE GroupsFrom(_, _, _)
GroupsFrom(N, E, completed) ==
    LET ready == ReadyNodes(N, E, completed)
    IN  IF ready = {} THEN <<>>
        ELSE <<ready>> \o GroupsFrom(N, E, completed \cup ready)

\* TaskGraph::from_config, dag.rs:25-53
FromConfig ==
    /\ dag_result = "none"
    /\ IF IsCyclicDirected(TaskNames, AddEdges(config))
       THEN /\ dag_result' = "CycleDetected"
            /\ UNCHANGED graph
       ELSE /\ dag_result' = "Ok"
            /\ graph' = AddEdges(config)
    /\ UNCHANGED <<config, order, groups>>

\* TaskGraph::execution_order_for, dag.rs:69-91 (the target is a task)
ExecutionOrderFor(target) ==
    /\ dag_result = "Ok"
    /\ \E sorted \in Toposort(TaskNames, graph) :
          order' = [target |-> target,
                    tasks |-> FilterOrder(sorted, Required(graph, target))]
    /\ UNCHANGED <<config, dag_result, graph, groups>>

\* TaskGraph::parallel_groups, dag.rs:106-143
ParallelGroups ==
    /\ dag_result = "Ok"
    /\ groups' = [done |-> TRUE, levels |-> GroupsFrom(TaskNames, graph, {})]
    /\ UNCHANGED <<config, dag_result, graph, order>>

NoOrder == [target |-> "none", tasks |-> <<>>]
NoGroups == [done |-> FALSE, levels |-> <<>>]

InitGraph ==
    /\ dag_result = "none"
    /\ graph = {}
    /\ order = NoOrder
    /\ groups = NoGroups

\* ============================================================ executor.rs
\* the largest retry count of a task of the model (besides u32::MAX)
MaxRetry == 1
\* the most positional arguments the driver passes
MaxArgs == 2

\* Task.retry is a u32 (semantic.rs:60). TLC's integers cannot hold
\* u32::MAX = 4294967295; the model writes it as -1, the same 32 bits read
\* as a two's-complement number, and never computes with it but in WrappingAdd1.
U32Max == -1

NoCall == [mode |-> "none", target |-> "none", nargs |-> 0]
NoResult == [task_name |-> "none", status |-> "none", attempts |-> 0, output |-> <<>>]

\* TaskResult, executor.rs:55-61
TaskResult(t, st, n, out) ==
    [task_name |-> t, status |-> st, attempts |-> n, output |-> out]

\* Texts are sequences of tokens. A task that runs prints its name
\* (executor.rs:363 returns the captured stdout) ...
Stdout(t) == <<t>>
\* ... and the k-th failing attempt has an error text of its own (executor.rs:367)
ErrText(k) == <<"error", ToString(k)>>
\* the text of ExecutorError::Timeout (executor.rs:567)
TimeoutText == <<"timed out">>

\* How execute_once ends for a task with a command (executor.rs:553-570): the
\* child exited with success, or with a failure, or the timeout of the task
\* elapsed first
Outcomes(task) == {"ok", "failed"} \cup (IF task.timeout THEN {"timeout"} ELSE {})
\* the error text an attempt that did not succeed leaves in `output`
ErrOf(outcome, k) == IF outcome = "timeout" THEN TimeoutText ELSE ErrText(k)
\* The children of an attempt that run on when execute_once returns. After
\* child.wait() (executor.rs:553) there is none. On a timeout
\* (executor.rs:565-567) the future that owns the Child is dropped; the Command
\* was built without kill_on_drop (executor.rs:468-503), so the process is
\* neither signalled nor awaited.
LeftRunning(outcome) == IF outcome = "timeout" THEN 1 ELSE 0

\* task.retry + 1 that wraps (executor.rs:337, a build without overflow checks)
WrappingAdd1(r) == IF r = U32Max THEN 0 ELSE r + 1

\* execute_once, executor.rs:463-483, for a local task: a shebang script is
\* written to a NamedTempFile (create_script_file, executor.rs:639-654), the
\* interpreter is spawned on its path, and the NamedTempFile is passed to
\* std::mem::forget: its destructor, which would remove the file, never runs
ScriptFilesLeft(task) == IF task.shebang THEN 1 ELSE 0

\* HashMap::insert on the Pipe Store (executor.rs:210-213, 274-277)
Insert(store, k, v) ==
    [x \in (DOMAIN store) \cup {k} |-> IF x = k THEN v ELSE store[x]]

\* Option<String>: the stdin of a task
NoStdin == [some |-> FALSE, data |-> <<>>]
SomeStdin(text) == [some |-> TRUE, data |-> text]
\* stdin_data.unwrap_or("") of a join node, executor.rs:407
UnwrapOrEmpty(opt) == IF opt.some THEN opt.data ELSE <<>>

\* the loop of collect_pipe_inputs_from_store that puts each output in front
RECURSIVE CombineReversed(_, _)
CombineReversed(sources, store) ==
    IF sources = <<>> THEN <<>>
    ELSE CombineReversed(Tail(sources), store)
         \o (IF Head(sources) \in DOMAIN store THEN store[Head(sources)] ELSE <<>>)
\* the loop of collect_pipe_inputs_from_store, executor.rs:315-321: the stored
\* outputs of the sources, in the order of the sources
RECURSIVE Combine(_, _)
Combine(sources, store) ==
    IF sources = <<>> THEN <<>>
    ELSE (IF Head(sources) \in DOMAIN store THEN store[Head(sources)] ELSE <<>>)
         \o Combine(Tail(sources), store)
\* collect_pipe_inputs_from_store, executor.rs:309-328: None without
\* pipe_from, and None when nothing was collected
CollectPipeInputs(task, store) ==
    IF task.pipe_from = <<>> THEN NoStdin
    ELSE LET combined == Combine(task.pipe_from, store)
         IN  IF combined = <<>> THEN NoStdin ELSE SomeStdin(combined)

\* build_param_bindings, executor.rs:747-789, for n positional arguments: the
\* bound names, or an error
RequiredCount(params) ==
    Cardinality({i \in 1..Len(params) : ~params[i].has_default})
BuildParamBindings(task, n) ==
    LET params == task.parameters
    IN  IF \/ n < RequiredCount(params)
           \/ n > Len(params)
           \/ \E i \in (n + 1)..Len(params) : ~params[i].has_default
        THEN [ok |-> FALSE, names |-> {}]
        ELSE [ok |-> TRUE, names |-> {params[i].name : i \in 1..Len(params)}]

\* apply_bindings, executor.rs:792-825: fails on a parameter that is neither
\* bound nor defaulted
ApplyBindingsOk(task, names) ==
    \A i \in 1..Len(task.parameters) :
        task.parameters[i].name \in names \/ task.parameters[i].has_default

ParamNames(task) == {task.parameters[i].name : i \in 1..Len(task.parameters)}
ArgValue(t, i) == [from |-> "arg", of |-> t, pos |-> i]
DefaultValue(t) == [from |-> "default", of |-> t, pos |-> 0]

\* build_param_bindings, executor.rs:773-786: the map from the names of the
\* target's parameters to the positional argument, or to the target's default
ParamBindings(t, n) ==
    [nm \in ParamNames(config[t]) |->
        LET i == CHOOSE i \in 1..Len(config[t].parameters) :
                     config[t].parameters[i].name = nm
        IN  IF i <= n THEN ArgValue(t, i) ELSE DefaultValue(t)]

\* apply_bindings, executor.rs:796-809: per parameter of the task, the value
\* bound under its name, else the task's own default
ApplyBindings(t, bindings) ==
    [nm \in ParamNames(config[t]) |->
        IF nm \in DOMAIN bindings THEN bindings[nm] ELSE DefaultValue(t)]

\* where a task begins: execute_single (executor.rs:296-306) goes straight to
\* the Pipe Store, execute_sequential / execute_parallel acquire services first
StartPc(t) ==
    IF call.mode = "args" \/ config[t].service_deps = <<>>
    THEN "w_collect" ELSE "w_acq"

\* where a task goes with its result: execute_single returns it, the others
\* release the services and store the output
AfterRunPc(t) ==
    IF call.mode = "args" THEN "w_done"
    ELSE IF config[t].service_deps = <<>> THEN "w_store" ELSE "w_rel"

\* ---- the steps of one task
\* executor.rs:175-176 / 240-241: acquire the next service_dep
WAcquire(t) ==
    /\ pc[t] = "w_acq"
    /\ AcquireBump(t, config[t].service_deps[dep_i[t]])
    /\ UNCHANGED <<auxVars, dagVars, execVars>>

\* an acquire loop that goes on after an Err
AfterAcquireIgnoringErr(res, i, n) == IF i < n THEN "w_acq" ELSE "w_collect"
\* executor.rs:176-183 / 241-248: after Ok the loop goes on to the next
\* service_dep, or ends and the task reads the Pipe Store; an Err breaks the
\* loop, and the task goes on at the release loop
AfterAcquire(res, i, n) ==
    IF res = "ok" THEN (IF i < n THEN "w_acq" ELSE "w_collect") ELSE "w_rel"

\* executor.rs:176-191 / 241-256: the answer of acquire; an Err ends the loop
\* and becomes the result of the task
WAcquired(t) ==
    /\ pc[t] = "acq_done"
    /\ acq_result' = [acq_result EXCEPT ![t] = "none"]
    /\ cur' = [cur EXCEPT ![t] = "none"]
    /\ LET next == AfterAcquire(acq_result[t], dep_i[t], Len(config[t].service_deps))
       IN  /\ pc' = [pc EXCEPT ![t] = next]
           /\ dep_i' = [dep_i EXCEPT ![t] = IF next = "w_acq" THEN @ + 1 ELSE 1]
    /\ IF acq_result[t] = "ok"
       THEN UNCHANGED wres
       ELSE wres' = [wres EXCEPT ![t] =
                        TaskResult(t, "Failed", 0, <<acq_result[t]>>)]
    /\ UNCHANGED <<registered, state, ref_count, child, procs, local_child,
                   held, todo>>
    /\ UNCHANGED <<auxVars, dagVars, call, idx, results, outputs, attempt, stdin, runs, children>>

\* executor.rs:193 / 258 / 297: read the Pipe Store
WCollect(t) ==
    /\ pc[t] = "w_collect"
    /\ stdin' = [stdin EXCEPT ![t] = CollectPipeInputs(config[t], outputs)]
    /\ pc' = [pc EXCEPT ![t] = "w_run"]
    /\ UNCHANGED <<registered, state, ref_count, child, procs, cur, local_child,
                   acq_result, held, todo>>
    /\ UNCHANGED <<auxVars, dagVars, call, idx, results, outputs, dep_i, attempt, wres, runs, children>>

\* execute_with_retry returns r (executor.rs:359-364, 389-394)
Return(t, r) ==
    /\ wres' = [wres EXCEPT ![t] = r]
    /\ attempt' = [attempt EXCEPT ![t] = 0]
    /\ pc' = [pc EXCEPT ![t] = AfterRunPc(t)]

\* execute_with_retry, executor.rs:330-395: one pass of the loop, that is one
\* call of execute_once. A join node passes its stdin through and spawns
\* nothing (executor.rs:405-408); a task with a command spawns a child
\* (executor.rs:463-503) and ends in one of Outcomes.
\* With retry = u32::MAX the sum retry + 1 overflows: a build with overflow
\* checks panics, one without wraps to 0 and the loop body never runs.
WAttempt(t) ==
    /\ pc[t] = "w_run"
    /\ LET task == config[t]
           max_attempts == WrappingAdd1(task.retry)
           k == attempt[t] + 1
       IN  \/ /\ task.retry = U32Max
              /\ pc' = [pc EXCEPT ![t] = "panicked"]
              /\ UNCHANGED <<wres, attempt, runs, children>>
           \/ /\ max_attempts = 0
              /\ Return(t, TaskResult(t, "Failed", max_attempts, <<>>))
              /\ UNCHANGED <<runs, children>>
           \/ /\ k <= max_attempts
              /\ runs' = [runs EXCEPT ![t] = @ + 1]
              /\ IF IsJoin(task)
                 THEN /\ Return(t, TaskResult(t, "Success", k, UnwrapOrEmpty(stdin[t])))
                      /\ UNCHANGED children
                 ELSE \E outcome \in Outcomes(task) :
                        /\ children' = [children EXCEPT ![t] =
                               [spawned |-> @.spawned + 1,
                                running |-> @.running + LeftRunning(outcome),
                                scripts |-> @.scripts + ScriptFilesLeft(task)]]
                        /\ IF outcome = "ok"
                           THEN Return(t, TaskResult(t, "Success", k, Stdout(t)))
                           ELSE IF k < max_attempts
                                THEN /\ attempt' = [attempt EXCEPT ![t] = k]
                                     /\ UNCHANGED <<wres, pc>>
                                ELSE Return(t, TaskResult(t, "Failed", max_attempts,
                                                          ErrOf(outcome, k)))
    /\ UNCHANGED <<registered, state, ref_count, child, procs, cur, local_child,
                   acq_result, held, todo>>
    /\ UNCHANGED <<auxVars, dagVars, call, idx, results, outputs, dep_i, stdin>>

\* a child that outlived its attempt exits by itself
RunnerChildExit(t) ==
    /\ children[t].running > 0
    /\ children' = [children EXCEPT ![t].running = @ - 1]
    /\ UNCHANGED <<svcVars, auxVars, dagVars>>
    /\ UNCHANGED <<call, idx, results, outputs, dep_i, attempt, stdin, wres, runs>>

\* executor.rs:205-207 / 270-272: release the next service_dep
WRelease(t) ==
    /\ pc[t] = "w_rel"
    /\ ReleaseDecrement(t, config[t].service_deps[dep_i[t]])
    /\ UNCHANGED <<auxVars, dagVars, execVars>>

\* release has returned: on to the next service_dep, or to the Pipe Store
WReleased(t) ==
    /\ pc[t] = "rel_done"
    /\ cur' = [cur EXCEPT ![t] = "none"]
    /\ IF dep_i[t] < Len(config[t].service_deps)
       THEN /\ dep_i' = [dep_i EXCEPT ![t] = @ + 1]
            /\ pc' = [pc EXCEPT ![t] = "w_rel"]
       ELSE /\ dep_i' = [dep_i EXCEPT ![t] = 1]
            /\ pc' = [pc EXCEPT ![t] = "w_store"]
    /\ UNCHANGED <<registered, state, ref_count, child, procs, local_child,
                   acq_result, held, todo>>
    /\ UNCHANGED <<auxVars, dagVars, call, idx, results, outputs, attempt, stdin, wres, runs, children>>

\* executor.rs:210-213 / 274-277: store the output for downstream tasks
WStore(t) ==
    /\ pc[t] = "w_store"
    /\ outputs' = Insert(outputs, t, wres[t].output)
    /\ pc' = [pc EXCEPT ![t] = "w_done"]
    /\ UNCHANGED <<registered, state, ref_count, child, procs, cur, local_child,
                   acq_result, held, todo>>
    /\ UNCHANGED <<auxVars, dagVars, call, idx, results, dep_i, attempt, stdin, wres, runs, children>>

\* ---- the driver (main.rs:200-215, 270-295) and the loops of the Executor
\* TaskGraph::from_config, Executor::new, register_services (executor.rs:87-95)
ExecNew ==
    /\ pc[Main] = "new"
    /\ FromConfig
    /\ IF dag_result' = "Ok"
       THEN /\ registered' = {t \in TaskNames : config[t].service}
            /\ pc' = [pc EXCEPT ![Main] = "run"]
       ELSE /\ pc' = [pc EXCEPT ![Main] = "aborted"]
            /\ UNCHANGED registered
    /\ UNCHANGED <<state, ref_count, child, procs, cur, local_child, acq_result,
                   held, todo>>
    /\ UNCHANGED <<auxVars, execVars>>

\* run_task / run_task_with_args without arguments, executor.rs:104-120
RunTask ==
    /\ pc[Main] = "run"
    /\ call.mode = "seq"
    /\ ExecutionOrderFor(call.target)
    /\ pc' = [pc EXCEPT ![Main] = "seq_next"]
    /\ UNCHANGED <<registered, state, ref_count, child, procs, cur, local_child,
                   acq_result, held, todo>>
    /\ UNCHANGED <<auxVars, execVars>>

\* run_task_with_args with arguments, executor.rs:115-128: a binding error is
\* returned as Err and the driver exits
RunTaskWithArgs ==
    /\ pc[Main] = "run"
    /\ call.mode = "args"
    /\ ExecutionOrderFor(call.target)
    /\ pc' = [pc EXCEPT ![Main] =
                IF BuildParamBindings(config[call.target], call.nargs).ok
                THEN "args_next" ELSE "aborted"]
    /\ UNCHANGED <<registered, state, ref_count, child, procs, cur, local_child,
                   acq_result, held, todo>>
    /\ UNCHANGED <<auxVars, execVars>>

\* run_all, executor.rs:147-149
RunAll ==
    /\ pc[Main] = "run"
    /\ call.mode = "par"
    /\ ParallelGroups
    /\ pc' = [pc EXCEPT ![Main] = "par_spawn"]
    /\ UNCHANGED <<registered, state, ref_count, child, procs, cur, local_child,
                   acq_result, held, todo>>
    /\ UNCHANGED <<auxVars, execVars>>

\* execute_sequential, executor.rs:171: the next task of the order, or Ok(results)
SeqNext ==
    /\ pc[Main] = "seq_next"
    /\ IF idx > Len(order.tasks)
       THEN pc' = [pc EXCEPT ![Main] = "closing"]
       ELSE pc' = [pc EXCEPT ![Main] = "seq_wait",
                             ![order.tasks[idx]] = StartPc(order.tasks[idx])]
    /\ UNCHANGED <<registered, state, ref_count, child, procs, cur, local_child,
                   acq_result, held, todo>>
    /\ UNCHANGED <<auxVars, dagVars, execVars>>

\* the loop tail shared by execute_sequential (executor.rs:215-220) and
\* run_task_with_args (executor.rs:137-141): push the result, break on Failed;
\* a panic of the task is a panic of the driver
\* `failed` of the loop tail: result.status == TaskStatus::Failed
BreakNever(r) == FALSE
BreakAfter(r) == r.status = "Failed"

PushResult(next) ==
    /\ LET t == order.tasks[idx]
       IN  \/ /\ pc[t] = "w_done"
              /\ results' = Append(results, wres[t])
              /\ IF BreakAfter(wres[t])
                 THEN /\ pc' = [pc EXCEPT ![Main] = "closing"]
                      /\ UNCHANGED idx
                 ELSE /\ pc' = [pc EXCEPT ![Main] = next]
                      /\ idx' = idx + 1
           \/ /\ pc[t] = "panicked"
              /\ pc' = [pc EXCEPT ![Main] = "aborted"]
              /\ UNCHANGED <<results, idx>>
    /\ UNCHANGED <<registered, state, ref_count, child, procs, cur, local_child,
                   acq_result, held, todo>>
    /\ UNCHANGED <<auxVars, dagVars, call, outputs, dep_i, attempt, stdin, wres, runs, children>>

SeqCollect ==
    /\ pc[Main] = "seq_wait"
    /\ PushResult("seq_next")

\* run_task_with_args, executor.rs:132-136: bind the next task and run it with
\* execute_single; a binding error is returned as Err
ArgsNext ==
    /\ pc[Main] = "args_next"
    /\ IF idx > Len(order.tasks)
       THEN pc' = [pc EXCEPT ![Main] = "closing"]
       ELSE IF ApplyBindingsOk(config[order.tasks[idx]],
                   BuildParamBindings(config[call.target], call.nargs).names)
            THEN pc' = [pc EXCEPT ![Main] = "args_wait",
                                  ![order.tasks[idx]] = StartPc(order.tasks[idx])]
            ELSE pc' = [pc EXCEPT ![Main] = "aborted"]
    /\ task_bindings' =
          IF /\ idx <= Len(order.tasks)
             /\ ApplyBindingsOk(config[order.tasks[idx]],
                    BuildParamBindings(config[call.target], call.nargs).names)
          THEN [task_bindings EXCEPT ![order.tasks[idx]] =
                   ApplyBindings(order.tasks[idx],
                                 ParamBindings(call.target, call.nargs))]
          ELSE task_bindings
    /\ UNCHANGED <<registered, state, ref_count, child, procs, cur, local_child,
                   acq_result, held, todo>>
    /\ UNCHANGED <<sshVars, k8sVars, envVars, runnerVars, dagVars, execVars>>

ArgsCollect ==
    /\ pc[Main] = "args_wait"
    /\ PushResult("args_next")

\* run_all, executor.rs:151, and execute_parallel, executor.rs:227-282: spawn
\* every task of the next level, or return Ok(all_results)
ParSpawn ==
    /\ pc[Main] = "par_spawn"
    /\ IF idx > Len(groups.levels)
       THEN pc' = [pc EXCEPT ![Main] = "closing"]
       ELSE pc' = [p \in Procs |->
                     IF p = Main THEN "par_join"
                     ELSE IF p \in groups.levels[idx] THEN StartPc(p) ELSE pc[p]]
    /\ UNCHANGED <<registered, state, ref_count, child, procs, cur, local_child,
                   acq_result, held, todo>>
    /\ UNCHANGED <<auxVars, dagVars, execVars>>

\* executor.rs:285-287: every handle of the level has been awaited
SomeJoined(level) == \E t \in level : pc[t] \in {"w_done", "panicked"}
AllJoined(level) == \A t \in level : pc[t] \in {"w_done", "panicked"}

\* executor.rs:154: results.iter().any(|r| r.status == TaskStatus::Failed)
NoneFailed(level) == FALSE
AnyFailed(level) == \E t \in level : wres[t].status = "Failed"

\* execute_parallel, executor.rs:284-289, and run_all, executor.rs:152-159:
\* every handle is joined, in the order of the level's Vec (which the graph's
\* node indices fix, and the model leaves open); handle.await.unwrap() passes
\* a task's panic on to the driver; a Failed result ends the run
ParJoin ==
    /\ pc[Main] = "par_join"
    /\ LET level == groups.levels[idx]
       IN  /\ AllJoined(level)
           /\ IF \E t \in level : pc[t] = "panicked"
              THEN /\ pc' = [pc EXCEPT ![Main] = "aborted"]
                   /\ UNCHANGED <<results, idx>>
              ELSE /\ \E perm \in Perms(level) :
                        results' = results \o [i \in 1..Len(perm) |-> wres[perm[i]]]
                   /\ IF AnyFailed(level)
                      THEN /\ pc' = [pc EXCEPT ![Main] = "closing"]
                           /\ UNCHANGED idx
                      ELSE /\ pc' = [pc EXCEPT ![Main] = "par_spawn"]
                           /\ idx' = idx + 1
    /\ UNCHANGED <<registered, state, ref_count, child, procs, cur, local_child,
                   acq_result, held, todo>>
    /\ UNCHANGED <<auxVars, dagVars, call, outputs, dep_i, attempt, stdin, wres, runs, children>>

\* ------------------------------------------------- Kubernetes resources
NoJob == 0
\* generate_job_name, k8s.rs:147-155: a name no earlier Job of the run has
GenerateJobName == created + 1
\* the manifest paths of the tasks in apply mode
Paths == {"m1", "m2"}

SeqRange(q) == {q[i] : i \in DOMAIN q}
Reverse(q) == [i \in 1..Len(q) |-> q[Len(q) + 1 - i]]
RECURSIVE Retain(_, _)
\* Vec::retain(|j| j.name != job_name), k8s.rs:102-104
Retain(q, j) ==
    IF q = <<>> THEN <<>>
    ELSE IF Head(q) = j THEN Retain(Tail(q), j)
         ELSE <<Head(q)>> \o Retain(Tail(q), j)

JobEntry(j) == [kind |-> "job", job |-> j, path |-> "none"]
ManifestEntry(m) == [kind |-> "manifest", job |-> NoJob, path |-> m]

\* run_job, k8s.rs:321-329: get_client, build_job and jobs.create; each error
\* is returned with `?` and nothing has been created
RunJobCreate(p) ==
    /\ pc[p] = "idle"
    /\ k8s_result' = [k8s_result EXCEPT ![p] = "none"]
    /\ \/ /\ created < MaxJobs
          /\ created' = GenerateJobName
          /\ cluster' = [cluster EXCEPT !.jobs = @ \cup {GenerateJobName}]
          /\ job_name' = [job_name EXCEPT ![p] = GenerateJobName]
          /\ pc' = [pc EXCEPT ![p] = "k8s_track"]
       \/ /\ UNCHANGED <<created, cluster, job_name, pc>>
    /\ UNCHANGED <<jobs, applied, deleted, cur>>

\* run_job, k8s.rs:332 and track_job, k8s.rs:93-99
TrackJob(p) ==
    /\ pc[p] = "k8s_track"
    /\ jobs' = Append(jobs, job_name[p])
    /\ pc' = [pc EXCEPT ![p] = "k8s_wait"]
    /\ UNCHANGED <<applied, cluster, created, deleted, job_name, k8s_result, cur>>

\* run_job, k8s.rs:335-366: the wait ends with the Job succeeded, not
\* succeeded (failed, or the watch failed), or with the timeout
JobWait(p) ==
    /\ pc[p] = "k8s_wait"
    /\ \E r \in {"success", "failed", "timeout"} :
          k8s_result' = [k8s_result EXCEPT ![p] = r]
    /\ pc' = [pc EXCEPT ![p] = "k8s_delete"]
    /\ UNCHANGED <<jobs, applied, cluster, created, deleted, job_name, cur>>

\* run_job that deletes the Job on the common path only, not on the timeout
JobDeleteUnlessTimeout(p) ==
    /\ pc[p] = "k8s_delete"
    /\ IF k8s_result[p] = "timeout"
       THEN UNCHANGED cluster
       ELSE cluster' = [cluster EXCEPT !.jobs = @ \ {job_name[p]}]
    /\ pc' = [pc EXCEPT ![p] = "k8s_untrack"]
    /\ UNCHANGED <<jobs, applied, created, deleted, job_name, k8s_result, cur>>

\* run_job, k8s.rs:363 (timeout) and 370 (success, failure): jobs.delete removes
\* the Job
JobDelete(p) ==
    /\ pc[p] = "k8s_delete"
    /\ cluster' = [cluster EXCEPT !.jobs = @ \ {job_name[p]}]
    /\ pc' = [pc EXCEPT ![p] = "k8s_untrack"]
    /\ UNCHANGED <<jobs, applied, created, deleted, job_name, k8s_result, cur>>

\* run_job, k8s.rs:364-365 and 371-377, untrack_job, k8s.rs:102-104; run_job
\* returns
UntrackJob(p) ==
    /\ pc[p] = "k8s_untrack"
    /\ jobs' = Retain(jobs, job_name[p])
    /\ job_name' = [job_name EXCEPT ![p] = NoJob]
    /\ pc' = [pc EXCEPT ![p] = "idle"]
    /\ UNCHANGED <<applied, cluster, created, deleted, k8s_result, cur>>

\* apply_manifests, k8s.rs:404-424: `kubectl apply -f <path>`; a failure is
\* returned and nothing is tracked
KubectlApply(p, m) ==
    /\ pc[p] = "idle"
    /\ Len(applied) < MaxApplied
    /\ \/ /\ cluster' = [cluster EXCEPT !.manifests = @ \cup {m}]
          /\ pc' = [pc EXCEPT ![p] = "k8s_track_apply"]
          /\ cur' = [cur EXCEPT ![p] = m]
       \/ UNCHANGED <<cluster, pc, cur>>
    /\ UNCHANGED <<jobs, applied, created, deleted, job_name, k8s_result>>

\* apply_manifests, k8s.rs:434 and track_apply, k8s.rs:81-90
TrackApply(p) ==
    /\ pc[p] = "k8s_track_apply"
    /\ applied' = Append(applied, cur[p])
    /\ pc' = [pc EXCEPT ![p] = "idle"]
    /\ cur' = [cur EXCEPT ![p] = "none"]
    /\ UNCHANGED <<jobs, cluster, created, deleted, job_name, k8s_result>>

\* cleanup_all, k8s.rs:107-121: every tracked Job in order, its delete request
\* skipped when get_client fails (`if let Ok(client)`); then `kubectl delete`
\* for every tracked manifest application, last applied first. The tracker
\* itself is left as it is.
CleanupAll ==
    /\ deleted' = deleted \o [i \in 1..Len(jobs) |-> JobEntry(jobs[i])]
                          \o [i \in 1..Len(applied) |->
                                 ManifestEntry(Reverse(applied)[i])]
    /\ \E noclient \in SUBSET SeqRange(jobs) :
          cluster' = [jobs      |-> cluster.jobs \ (SeqRange(jobs) \ noclient),
                      manifests |-> cluster.manifests \ SeqRange(applied)]
    /\ UNCHANGED <<jobs, applied, created, job_name, k8s_result>>

\* ---- k8s::execute and its port forwards
\* execute, k8s.rs:719-723, and start_port_forward, k8s.rs:533-568: the next
\* `kubectl port-forward` is spawned and its handle pushed; a spawn error is
\* returned with `?`, which drops the Vec: a dropped Child is not killed
StartPortForward(p) ==
    /\ \/ pc[p] = "idle" /\ k8s_result[p] = "none"
       \/ pc[p] = "pf_loop"
    /\ port_forward_handles[p] < MaxForwards
    /\ \/ /\ port_forward_handles' = [port_forward_handles EXCEPT ![p] = @ + 1]
          /\ forwarders' = [forwarders EXCEPT ![p] = @ + 1]
          /\ pc' = [pc EXCEPT ![p] = "pf_loop"]
          /\ UNCHANGED k8s_result
       \/ /\ port_forward_handles' = [port_forward_handles EXCEPT ![p] = 0]
          /\ k8s_result' = [k8s_result EXCEPT ![p] = "error"]
          /\ pc' = [pc EXCEPT ![p] = "idle"]
          /\ UNCHANGED forwarders
    /\ UNCHANGED <<jobs, applied, cluster, created, deleted, job_name, cur>>

\* execute, k8s.rs:726-737: the task runs in its mode. run_job and exec_in_pod
\* give `result`, Ok or Err (a Job that ran has been created, deleted and
\* untracked when run_job returns); an error of apply_manifests or of
\* wait_for_resources is returned with `?`, after the manifests that were
\* applied have been tracked
ExecuteMode(p) ==
    /\ pc[p] = "pf_loop"
    /\ port_forward_handles[p] = MaxForwards
    /\ \E mode \in {"Job", "Apply", "Exec"}, r \in {"success", "failed", "error"} :
          /\ mode = "Apply" => r # "failed"
          /\ k8s_result' = [k8s_result EXCEPT ![p] = r]
          /\ created' = IF mode = "Job" /\ r # "error" THEN GenerateJobName ELSE created
          /\ IF mode = "Apply"
             THEN \E ms \in SUBSET Paths :
                     /\ r = "success" => ms # {}
                     /\ \E q \in Perms(ms) :
                            /\ applied' = applied \o q
                            /\ cluster' = [cluster EXCEPT !.manifests = @ \cup ms]
             ELSE UNCHANGED <<applied, cluster>>
          /\ IF mode = "Apply" /\ r = "error"
             THEN /\ port_forward_handles' = [port_forward_handles EXCEPT ![p] = 0]
                  /\ pc' = [pc EXCEPT ![p] = "idle"]
             ELSE /\ pc' = [pc EXCEPT ![p] = "pf_stop"]
                  /\ UNCHANGED port_forward_handles
    /\ UNCHANGED <<jobs, deleted, job_name, forwarders, cur>>

\* execute, k8s.rs:740-744, and stop_port_forwards, k8s.rs:572-578: every
\* handle of the Vec is killed; execute returns `result`
StopPortForwards(p) ==
    /\ pc[p] = "pf_stop"
    /\ forwarders' = [forwarders EXCEPT ![p] = @ - port_forward_handles[p]]
    /\ port_forward_handles' = [port_forward_handles EXCEPT ![p] = 0]
    /\ pc' = [pc EXCEPT ![p] = "idle"]
    /\ UNCHANGED <<jobs, applied, cluster, created, deleted, job_name, k8s_result, cur>>

\* k8s::new_tracker, K8sResourceTracker::new, k8s.rs:73-78
NewTracker ==
    /\ jobs = <<>>
    /\ applied = <<>>
    /\ cluster = [jobs |-> {}, manifests |-> {}]
    /\ created = 0
    /\ deleted = <<>>
    /\ job_name = [p \in Procs |-> NoJob]
    /\ k8s_result = [p \in Procs |-> "none"]
    /\ port_forward_handles = [p \in Procs |-> 0]
    /\ forwarders = [p \in Procs |-> 0]

OnlyK8s(A) ==
    A /\ UNCHANGED <<registered, state, ref_count, child, procs, local_child,
                     acq_result, held, todo, sshVars, task_bindings, envVars, runnerVars,
                     dagVars, execVars>>

OnlyForward(A) ==
    A /\ UNCHANGED <<registered, state, ref_count, child, procs, local_child,
                     acq_result, held, todo, sshVars, task_bindings, envVars,
                     dagVars, execVars>>

\* ------------------------------------------ env vars of a remote service
NoQuery == ""
\* the ports find_available_port hands out (ssh.rs:301-305: bind to port 0)
LocalPorts == {54321, 54322}
DefaultPort(scheme) == IF scheme = "https" THEN 443 ELSE 80

\* url::Url::parse: a port that is the default of the scheme is not kept
UrlParse(scheme, host, port, path, query) ==
    [scheme |-> scheme, host |-> host,
     port |-> IF port = DefaultPort(scheme) THEN NoPort ELSE port,
     path |-> path, query |-> query]
NoUrl == [scheme |-> "none", host |-> "none", port |-> NoPort, path |-> "",
          query |-> NoQuery]

\* the readiness checks of the model (semantic.rs, ReadinessCheck): none,
\* Command, Tcp, and Http over the urls below
NoCheck == [type |-> "none", host |-> "none", port |-> NoPort, url |-> NoUrl]
ReadinessChecks ==
    {NoCheck, [type |-> "cmd", host |-> "none", port |-> NoPort, url |-> NoUrl]}
    \cup {[type |-> "tcp", host |-> h, port |-> 5432, url |-> NoUrl] :
              h \in {"localhost", "db.internal"}}
    \cup {[type |-> "http", host |-> "none", port |-> NoPort,
           url |-> UrlParse(sc, "localhost", pt, "/health", q)] :
              sc \in {"http", "https"}, pt \in {NoPort, 80, 8080},
              q \in {NoQuery, "full=true"}}

\* ReadinessCheck::host_port, semantic.rs:177-190
HostPort(ready) ==
    CASE ready.type = "http" ->
             [some |-> TRUE, host |-> ready.url.host,
              port |-> IF ready.url.port = NoPort
                       THEN DefaultPort(ready.url.scheme) ELSE ready.url.port]
      [] ready.type = "tcp" -> [some |-> TRUE, host |-> ready.host, port |-> ready.port]
      [] OTHER -> [some |-> FALSE, host |-> "none", port |-> NoPort]

\* ReadinessCheck::base_url, semantic.rs:192-206: "scheme://host[:port]"
BaseUrl(ready) ==
    IF ready.type = "http"
    THEN [ready.url EXCEPT !.path = "", !.query = NoQuery]
    ELSE NoUrl

\* ReadinessCheck::with_tunnel, semantic.rs:212-231: set_host and set_port on
\* the parsed url, path and query kept; Tcp becomes 127.0.0.1:local_port; a
\* Command is kept
WithTunnel(ready, local_port) ==
    CASE ready.type = "http" ->
             [ready EXCEPT !.url.host = "127.0.0.1",
                           !.url.port = IF local_port = DefaultPort(ready.url.scheme)
                                        THEN NoPort ELSE local_port]
      [] ready.type = "tcp" -> [ready EXCEPT !.host = "127.0.0.1", !.port = local_port]
      [] OTHER -> ready

\* service_env_vars, env.rs:72-78: set_host, set_port, set_path(""), then
\* to_string().trim_end_matches('/'). set_port drops a port that is the
\* default of the scheme; set_path("") leaves the query in place, the
\* serialization then reads "scheme://host:port/?query" and ends in no '/'
TunnelUrl(url, local_port) ==
    [scheme |-> url.scheme,
     host   |-> "127.0.0.1",
     port   |-> IF local_port = DefaultPort(url.scheme) THEN NoPort ELSE local_port,
     path   |-> IF url.query = NoQuery THEN "" ELSE "/",
     query  |-> url.query]

NoEnv == [ready |-> "none", host |-> "none", port |-> NoPort, url |-> NoUrl,
          base_url |-> NoUrl]

\* service_env_vars, env.rs:43-94 (_READY, _HOST, _PORT, _URL, _BASE_URL)
ServiceEnvVars(ready, forwarded_port) ==
    IF ready.type = "none"
    THEN [NoEnv EXCEPT !.ready = "1"]
    ELSE IF forwarded_port # NoPort
         THEN [ready    |-> "1",
               host     |-> "127.0.0.1",
               port     |-> forwarded_port,
               url      |-> IF ready.type = "http"
                            THEN TunnelUrl(ready.url, forwarded_port) ELSE NoUrl,
               base_url |-> IF ready.type = "http"
                            THEN TunnelUrl(ready.url, forwarded_port) ELSE NoUrl]
         ELSE [ready    |-> "1",
               host     |-> HostPort(ready).host,
               port     |-> HostPort(ready).port,
               url      |-> BaseUrl(ready),
               base_url |-> BaseUrl(ready)]

\* acquire on a Stopped service, service.rs:128-130, and start_remote_service,
\* service.rs:171-176 and 323-371: mark Starting; a tunnel is set up when the
\* readiness check has a port, and its local port stored
RemoteStart(p) ==
    /\ pc[p] = "idle"
    /\ remote_state = "Stopped"
    /\ remote_state' = "Starting"
    /\ \E local_port \in LocalPorts :
          IF HostPort(ready_check).some
          THEN /\ port_forward' = local_port
               /\ polled' = [polled EXCEPT ![p] = WithTunnel(ready_check, local_port)]
          ELSE /\ port_forward' = NoPort
               /\ polled' = [polled EXCEPT ![p] = ready_check]
    /\ pc' = [pc EXCEPT ![p] = "env_wait"]
    /\ UNCHANGED <<ready_check, env_vars>>

\* acquire on a Starting service, service.rs:131-134: wait_for_ready is called
\* with no tunneled check, and polls config.ready (service.rs:385)
AcquireStarting(p) ==
    /\ pc[p] = "idle"
    /\ remote_state = "Starting"
    /\ polled' = [polled EXCEPT ![p] = ready_check]
    /\ pc' = [pc EXCEPT ![p] = "env_wait"]
    /\ UNCHANGED <<ready_check, port_forward, remote_state, env_vars>>

\* wait_for_ready, service.rs:385-447: the service is marked Ready
RemoteReady(p) ==
    /\ pc[p] = "env_wait"
    /\ remote_state' = "Ready"
    /\ pc' = [pc EXCEPT ![p] = "env_started"]
    /\ UNCHANGED <<ready_check, port_forward, env_vars, polled>>

\* acquire on a Ready service, service.rs:111-118
AcquireReady(p) ==
    /\ pc[p] = "idle"
    /\ remote_state = "Ready"
    /\ pc' = [pc EXCEPT ![p] = "env_ready"]
    /\ UNCHANGED envVars

\* acquire, service.rs:119-123 (Ready) and 140-148 (after the start): read
\* port_forward under the lock, return service_env_vars
AcquireEnv(p) ==
    /\ pc[p] \in {"env_started", "env_ready"}
    /\ env_vars' = [env_vars EXCEPT ![p] = ServiceEnvVars(ready_check, port_forward)]
    /\ pc' = [pc EXCEPT ![p] = IF pc[p] = "env_started" THEN "env_done_started"
                                                         ELSE "env_done_ready"]
    /\ UNCHANGED <<ready_check, port_forward, remote_state, polled>>

\* release and stop_service, service.rs:502-516 and 575-623: the last consumer
\* releases, port_forward is taken and the tunnel closed, the service Stopped
RemoteStop(p) ==
    /\ pc[p] \in {"env_done_started", "env_done_ready"}
    /\ pc' = [pc EXCEPT ![p] = "idle"]
    /\ IF \A q \in Clients \ {p} : pc[q] = "idle"
       THEN /\ remote_state' = "Stopped"
            /\ port_forward' = NoPort
       ELSE UNCHANGED <<remote_state, port_forward>>
    /\ UNCHANGED <<ready_check, env_vars, polled>>

OnlyEnv(A) ==
    A /\ UNCHANGED <<registered, state, ref_count, child, procs, cur, local_child,
                     acq_result, held, todo, sshVars, k8sVars, runnerVars, task_bindings,
                     dagVars, execVars>>

\* ServiceManager::register, service.rs:76-96, for a remote service with one
\* of the given readiness checks
InitEnv(checks) ==
    /\ ready_check \in checks
    /\ port_forward = NoPort
    /\ remote_state = "Stopped"
    /\ env_vars = [p \in Procs |-> NoEnv]
    /\ polled = [p \in Procs |-> NoCheck]

\* Executor::new, executor.rs:75-84
ExecutorNew ==
    /\ NewSessionCache
    /\ NewTracker
    /\ task_bindings = [t \in AllTasks |-> <<>>]
    /\ idx = 1
    /\ results = <<>>
    /\ outputs = <<>>
    /\ dep_i = [t \in AllTasks |-> 1]
    /\ attempt = [t \in AllTasks |-> 0]
    /\ stdin = [t \in AllTasks |-> NoStdin]
    /\ wres = [t \in AllTasks |-> NoResult]
    /\ runs = [t \in AllTasks |-> 0]
    /\ children = [t \in AllTasks |-> [spawned |-> 0, running |-> 0, scripts |-> 0]]

InitExecutor == ExecutorNew /\ InitEnv({NoCheck})

\* ---- the configurations the executor is run on
\* a and b feed c; a is a shebang script and is retried, b has a timeout and
\* pipes from a without depending on it, b and c take a parameter; c is a task with a command, or a
\* join node by its flag, or a join node for want of a command
Param(n, d) == [name |-> n, has_default |-> d]
JoinKinds == {"command", "flag", "no_command"}
DiamondConfig(r, ydef, cjoin) ==
    [t \in DagTasks |->
        CASE t = "a" -> [PlainTask({}) EXCEPT !.retry = r, !.shebang = TRUE]
          [] t = "b" -> [PlainTask({}) EXCEPT
                            !.parameters = <<Param("y", ydef)>>,
                            !.pipe_from = <<"a">>,
                            !.timeout = TRUE]
          [] t = "c" -> [PlainTask({"a", "b"}) EXCEPT
                            !.pipe_from = <<"a", "b">>,
                            !.parameters = <<Param("x", FALSE)>>,
                            !.join = (cjoin = "flag"),
                            !.run = (cjoin # "no_command")]]
DiamondCalls ==
    {[mode |-> "seq", target |-> "c", nargs |-> 0],
     [mode |-> "par", target |-> "none", nargs |-> 0]}
    \cup {[mode |-> "args", target |-> t, nargs |-> n] : t \in {"b", "c"}, n \in 1..MaxArgs}

\* a needs the services db and cache, b needs cache; the two services are
\* tasks of the graph, a and b are ordered after them and c after a and b;
\* c is a join node that names a service no task declares; a takes an
\* optional parameter, so that it can be run with an argument
ServicesConfig ==
    [t \in {"a", "b", "c", "db", "cache"} |->
        CASE t = "a" -> [PlainTask({"db", "cache"}) EXCEPT
                            !.service_deps = <<"db", "cache">>,
                            !.parameters = <<Param("x", TRUE)>>]
          [] t = "b" -> [PlainTask({"db", "cache"}) EXCEPT
                            !.service_deps = <<"cache">>]
          [] t = "c" -> [PlainTask({"a", "b"}) EXCEPT
                            !.pipe_from = <<"a", "b">>,
                            !.service_deps = <<"ext">>,
                            !.join = TRUE]
          [] OTHER   -> ServiceTask]
ServicesCalls ==
    {[mode |-> "seq", target |-> "c", nargs |-> 0],
     [mode |-> "par", target |-> "none", nargs |-> 0]}
    \cup {[mode |-> "args", target |-> "a", nargs |-> n] : n \in 1..MaxArgs}

\* a chain a -> b -> c in which the ancestor a declares a parameter of the
\* name of one of the target's: a takes x (with default), b takes y (with
\* default), c takes x (required) and y (with default)
ParamsConfig ==
    [t \in DagTasks |->
        CASE t = "a" -> [PlainTask({}) EXCEPT !.parameters = <<Param("x", TRUE)>>]
          [] t = "b" -> [PlainTask({"a"}) EXCEPT !.parameters = <<Param("y", TRUE)>>]
          [] t = "c" -> [PlainTask({"b"}) EXCEPT
                            !.parameters = <<Param("x", FALSE), Param("y", TRUE)>>]]
ParamsCalls == {[mode |-> "args", target |-> "c", nargs |-> n] : n \in 1..MaxArgs}

InitExec ==
    /\ registered = {}
    /\ InitManager("new")
    /\ InitGraph
    /\ InitExecutor
    /\ \/ /\ \E r \in (0..MaxRetry) \cup {U32Max}, ydef \in BOOLEAN,
                   cjoin \in JoinKinds :
                config = DiamondConfig(r, ydef, cjoin)
          /\ call \in DiamondCalls
       \/ /\ config = ServicesConfig
          /\ call \in ServicesCalls
       \/ /\ config = ParamsConfig
          /\ call \in ParamsCalls

OnlyExec(A) == A /\ UNCHANGED <<auxVars, dagVars, execVars>>

NextExec ==
    \/ ExecNew
    \/ RunTask
    \/ RunTaskWithArgs
    \/ RunAll
    \/ SeqNext
    \/ SeqCollect
    \/ ArgsNext
    \/ ArgsCollect
    \/ ParSpawn
    \/ ParJoin
    \/ \E t \in TaskNames : WAcquire(t)
    \/ \E t \in TaskNames : WAcquired(t)
    \/ \E t \in TaskNames : WCollect(t)
    \/ \E t \in TaskNames : WAttempt(t)
    \/ \E t \in TaskNames : RunnerChildExit(t)
    \/ \E t \in TaskNames : WRelease(t)
    \/ \E t \in TaskNames : WReleased(t)
    \/ \E t \in TaskNames : WStore(t)
    \/ \E p \in Procs : OnlyExec(AcquireSnapshot(p))
    \/ \E p \in Procs : OnlyExec(StartMark(p))
    \/ \E p \in Procs : OnlyExec(StartSpawn(p))
    \/ \E p \in Procs : OnlyExec(StartStore(p))
    \/ \E p \in Procs : OnlyExec(WaitNoCheck(p))
    \/ \E p \in Procs : OnlyExec(WaitLoop(p))
    \/ \E p \in Procs : OnlyExec(WaitCheck(p))
    \/ \E p \in Procs : OnlyExec(AcquireReturn(p))
    \/ \E p \in Procs : OnlyExec(StopBegin(p))
    \/ \E p \in Procs : OnlyExec(StopKill(p))
    \/ \E p \in Procs : OnlyExec(StopEnd(p))
    \/ OnlyExec(ShutdownCollect)
    \/ OnlyExec(ShutdownNext)
    \/ OnlyExec(ChildExit)

SpecExec == InitExec /\ [][NextExec]_vars

\* The driver under a termination signal. main installs no signal handler
\* (main.rs:162-298): SIGINT or SIGTERM ends the process at once, wherever the
\* driver and its tasks are; the processes spawned for the services are
\* separate processes and go on.
Exits == {"closed", "aborted", "killed"}
Signal ==
    /\ pc[Main] \notin Exits
    /\ pc' = [p \in Procs |-> "killed"]
    /\ UNCHANGED <<registered, state, ref_count, child, procs, cur, local_child,
                   acq_result, held, todo>>
    /\ UNCHANGED <<auxVars, dagVars, execVars>>

NextMain == NextExec \/ Signal
SpecMain == InitExec /\ [][NextMain]_vars

\* --------------------------------------------------------- specifications
\* The Service Manager with one registered service, under concurrent
\* acquire / release by two consumers and a shutdown
InitSvc ==
    /\ registered \in {{"db"}, {"cache"}, {"ext"}}
    /\ InitManager("closing")
    /\ config = [t \in registered |-> ServiceTask]
    /\ InitGraph
    /\ InitExecutor
    /\ call = NoCall

NextSvc ==
    \/ \E p \in Clients, s \in registered : OnlySvc(ClientAcquire(p, s))
    \/ \E p \in Clients : OnlySvc(ClientAcquired(p))
    \/ \E p \in Clients, s \in registered : OnlySvc(ClientRelease(p, s))
    \/ \E p \in Clients : OnlySvc(ClientReleased(p))
    \/ \E p \in Procs : OnlySvc(AcquireSnapshot(p))
    \/ \E p \in Procs : OnlySvc(StartMark(p))
    \/ \E p \in Procs : OnlySvc(StartSpawn(p))
    \/ \E p \in Procs : OnlySvc(StartStore(p))
    \/ \E p \in Procs : OnlySvc(WaitNoCheck(p))
    \/ \E p \in Procs : OnlySvc(WaitLoop(p))
    \/ \E p \in Procs : OnlySvc(WaitCheck(p))
    \/ \E p \in Procs : OnlySvc(AcquireReturn(p))
    \/ \E p \in Procs : OnlySvc(StopBegin(p))
    \/ \E p \in Procs : OnlySvc(StopKill(p))
    \/ \E p \in Procs : OnlySvc(StopEnd(p))
    \/ OnlySvc(ShutdownCollect)
    \/ OnlySvc(ShutdownNext)
    \/ OnlySvc(ChildExit)

SpecSvc == InitSvc /\ [][NextSvc]_vars

\* The same under a runtime that lets every consumer inside acquire() take its
\* next step (tokio polls a task that is ready to run). The clock advances
\* with every sleep(interval) of the polling loop (service.rs:446), so a
\* consumer that keeps coming back to the head of the loop finds the deadline
\* passed at some time: strong fairness of WaitTimeout. A readiness probe
\* answers when it is bounded by a timeout of its own.
SpecSvcFair ==
    /\ InitSvc
    /\ [][NextSvc]_vars
    /\ \A p \in Clients :
          /\ WF_vars(OnlySvc(AcquireSnapshot(p)))
          /\ WF_vars(OnlySvc(StartMark(p)))
          /\ WF_vars(OnlySvc(StartSpawn(p)))
          /\ WF_vars(OnlySvc(StartStore(p)))
          /\ WF_vars(OnlySvc(WaitNoCheck(p)))
          /\ WF_vars(OnlySvc(WaitLoop(p)))
          /\ SF_vars(OnlySvc(WaitTimeout(p)))
          /\ WF_vars(/\ pc[p] = "wait_check"
                     /\ ProbeBounded(cur[p])
                     /\ OnlySvc(WaitCheck(p)))
          /\ WF_vars(OnlySvc(AcquireReturn(p)))

\* The Service Manager as its tests use it (service.rs:690-724, 879-906):
\* consumers acquire and release, and shutdown() is called when no call of
\* theirs is in progress; nothing is called after it
InitShutdown ==
    /\ registered \in {{"db"}, {"cache"}, {"ext"}}
    /\ InitManager("serving")
    /\ config = [t \in registered |-> ServiceTask]
    /\ InitGraph
    /\ InitExecutor
    /\ call = NoCall

ServeAcquire(p, s) == pc[Main] = "serving" /\ OnlySvc(ClientAcquire(p, s))
ServeRelease(p, s) == pc[Main] = "serving" /\ OnlySvc(ClientRelease(p, s))
ShutdownCall ==
    /\ pc[Main] = "serving"
    /\ \A p \in Clients : pc[p] = "idle"
    /\ pc' = [pc EXCEPT ![Main] = "closing"]
    /\ UNCHANGED <<registered, state, ref_count, child, procs, cur, local_child,
                   acq_result, held, todo>>
    /\ UNCHANGED <<auxVars, dagVars, execVars>>

NextShutdown ==
    \/ \E p \in Clients, s \in registered : ServeAcquire(p, s)
    \/ \E p \in Clients : OnlySvc(ClientAcquired(p))
    \/ \E p \in Clients, s \in registered : ServeRelease(p, s)
    \/ \E p \in Clients : OnlySvc(ClientReleased(p))
    \/ ShutdownCall
    \/ \E p \in Procs : OnlySvc(AcquireSnapshot(p))
    \/ \E p \in Procs : OnlySvc(StartMark(p))
    \/ \E p \in Procs : OnlySvc(StartSpawn(p))
    \/ \E p \in Procs : OnlySvc(StartStore(p))
    \/ \E p \in Procs : OnlySvc(WaitNoCheck(p))
    \/ \E p \in Procs : OnlySvc(WaitLoop(p))
    \/ \E p \in Procs : OnlySvc(WaitCheck(p))
    \/ \E p \in Procs : OnlySvc(AcquireReturn(p))
    \/ \E p \in Procs : OnlySvc(StopBegin(p))
    \/ \E p \in Procs : OnlySvc(StopKill(p))
    \/ \E p \in Procs : OnlySvc(StopEnd(p))
    \/ OnlySvc(ShutdownCollect)
    \/ OnlySvc(ShutdownNext)
    \/ OnlySvc(ChildExit)

SpecShutdown == InitShutdown /\ [][NextShutdown]_vars

\* The session cache of an executor whose tasks and remote services ask for
\* sessions concurrently; Executor::close runs once every call has returned
InitSsh ==
    /\ registered = {}
    /\ InitManager("serving")
    /\ config = <<>>
    /\ InitGraph
    /\ InitExecutor
    /\ call = NoCall

\* Executor::close, executor.rs:98-102, with no service registered: shutdown()
\* has nothing to stop; then cleanup_all, then close_sessions
ExecutorClose ==
    /\ pc[Main] = "serving"
    /\ \A p \in Clients : pc[p] = "idle"
    /\ CleanupAll
    /\ CloseSessions
    /\ pc' = [pc EXCEPT ![Main] = "closed"]
    /\ UNCHANGED <<registered, state, ref_count, child, procs, cur, local_child,
                   acq_result, held, todo, task_bindings, envVars, runnerVars, dagVars,
                   execVars>>

NextSsh ==
    \/ \E p \in Clients, c \in SshConfigs :
          pc[Main] = "serving" /\ OnlySsh(GetSessionCheck(p, c))
    \/ \E p \in Clients : OnlySsh(GetSessionConnect(p))
    \/ \E p \in Clients : OnlySsh(GetSessionInsert(p))
    \/ \E p \in Clients : OnlySsh(SpawnStreamingCommand(p))
    \/ \E i \in Sids : OnlySsh(StreamEnds(i))
    \/ \E p \in Clients : OnlySsh(SessionDrop(p))
    \/ ExecutorClose

SpecSsh == InitSsh /\ [][NextSsh]_vars

\* The resource tracker of an executor whose tasks run Jobs and apply
\* manifests concurrently; Executor::close runs once every call has returned
NextK8s ==
    \/ \E p \in Clients : pc[Main] = "serving" /\ OnlyK8s(RunJobCreate(p))
    \/ \E p \in Clients : OnlyK8s(TrackJob(p))
    \/ \E p \in Clients : OnlyK8s(JobWait(p))
    \/ \E p \in Clients : OnlyK8s(JobDelete(p))
    \/ \E p \in Clients : OnlyK8s(UntrackJob(p))
    \/ \E p \in Clients, m \in Paths :
          pc[Main] = "serving" /\ OnlyK8s(KubectlApply(p, m))
    \/ \E p \in Clients : OnlyK8s(TrackApply(p))
    \/ ExecutorClose

SpecK8s == InitSsh /\ [][NextK8s]_vars

\* K8s tasks with MaxForwards port forwards each, run concurrently (one per
\* client), then Executor::close
NextForward ==
    \/ \E p \in Clients : pc[Main] = "serving" /\ OnlyForward(StartPortForward(p))
    \/ \E p \in Clients : OnlyForward(ExecuteMode(p))
    \/ \E p \in Clients : OnlyForward(StopPortForwards(p))
    \/ ExecutorClose

SpecForward == InitSsh /\ [][NextForward]_vars

\* A remote service with a readiness check, acquired and released by two
\* consumers: one drives the start, the other finds it Ready
InitRemote ==
    /\ registered = {}
    /\ InitManager("serving")
    /\ config = <<>>
    /\ InitGraph
    /\ ExecutorNew
    /\ InitEnv(ReadinessChecks)
    /\ call = NoCall

NextEnv ==
    \/ \E p \in Clients : OnlyEnv(RemoteStart(p))
    \/ \E p \in Clients : OnlyEnv(AcquireStarting(p))
    \/ \E p \in Clients : OnlyEnv(RemoteReady(p))
    \/ \E p \in Clients : OnlyEnv(AcquireReady(p))
    \/ \E p \in Clients : OnlyEnv(AcquireEnv(p))
    \/ \E p \in Clients : OnlyEnv(RemoteStop(p))

SpecEnv == InitRemote /\ [][NextEnv]_vars

\* The task graph over every depends_on relation of three tasks
InitDag ==
    /\ registered = {}
    /\ InitManager("closed")
    /\ \E deps \in [DagTasks -> SUBSET DagTasks] :
          config = [t \in DagTasks |-> PlainTask(deps[t])]
    /\ InitGraph
    /\ InitExecutor
    /\ call = NoCall

NextDag ==
    \/ FromConfig /\ UNCHANGED <<svcVars, auxVars, execVars>>
    \/ \E target \in TaskNames :
          ExecutionOrderFor(target) /\ UNCHANGED <<svcVars, auxVars, execVars>>
    \/ ParallelGroups /\ UNCHANGED <<svcVars, auxVars, execVars>>

SpecDag == InitDag /\ [][NextDag]_vars

\* ================================================================= claims
StopPcs == {"stop_begin", "stop_kill", "stop_end"}
StartPcs == {"start_mark", "start_spawn", "start_store"}

\* the step is p's release(s): the first lock section of release
ReleaseStep(p, s) ==
    /\ pc[p] = "idle"
    /\ pc'[p] \in {"rel_done", "stop_begin"}
    /\ cur'[p] = s

C1_Step ==
    \A s \in registered : IsManaged(s) =>
        /\ \A p \in Clients :
            /\ (ReleaseStep(p, s) /\ state[s] = "Ready" /\ ref_count'[s] > 0) =>
                   /\ state'[s] = "Ready"
                   /\ child'[s] = child[s]
                   /\ procs' = procs
                   /\ pc'[p] = "rel_done"
            /\ (ReleaseStep(p, s) /\ state[s] = "Ready" /\ ref_count'[s] = 0) =>
                   pc'[p] = "stop_begin"
            /\ (pc[p] \notin StopPcs /\ pc'[p] \in StopPcs /\ cur'[p] = s) =>
                   ref_count'[s] = 0
            /\ (pc[p] = "stop_begin" /\ pc'[p] # "stop_begin" /\ cur[p] = s) =>
                   state'[s] = "Stopping"
            /\ (pc[p] = "stop_end" /\ pc'[p] # "stop_end" /\ cur[p] = s) =>
                   state'[s] = "Stopped"
        /\ (state[s] # "Stopped" /\ state'[s] = "Stopped") =>
               \E p \in Procs : pc[p] = "stop_end" /\ pc'[p] # "stop_end" /\ cur[p] = s

\* C1: a release() of a Ready Managed service that leaves ref_count > 0 leaves
\* it Ready with its child handle and process untouched; the release() that
\* brings ref_count to 0 enters stop_service, which sets Stopping and then
\* Stopped; a consumer enters stop_service only with ref_count at zero, and the
\* state becomes Stopped only in the last step of a stop_service.
C1_RefCountedStop == [][C1_Step]_vars

\* a release left one consumer behind: the service is still Ready and running
C1_Witness ==
    \E p, q \in Clients :
        /\ p # q
        /\ pc[p] = "rel_done" /\ cur[p] = "db"
        /\ pc[q] = "idle" /\ held[q]["db"] = 1
        /\ ref_count["db"] = 1
        /\ state["db"] = "Ready"
        /\ child["db"] # NoChild /\ procs[child["db"]].running

Starters(s) == {p \in Procs : pc[p] \in StartPcs /\ cur[p] = s}

\* C2: per Managed service at most one acquirer is inside the start procedure,
\* and at most one process spawned for the service is alive.
C2_SingleStart ==
    \A s \in registered : IsManaged(s) =>
        /\ Cardinality(Starters(s)) <= 1
        /\ Cardinality(LiveProcs(s)) <= 1

AllowedTransitions ==
    {<<"Stopped", "Starting">>, <<"Starting", "Ready">>, <<"Starting", "Failed">>,
     <<"Ready", "Stopping">>, <<"Failed", "Stopping">>, <<"Starting", "Stopping">>,
     <<"Stopping", "Stopped">>}

\* C4: every change of a service's state is a transition of the state machine
\* Stopped -> Starting -> (Ready | Failed) -> Stopping -> Stopped, a stop may
\* also begin from Starting.
C4_StateMachine ==
    [][\A s \in registered :
          state'[s] # state[s] => <<state[s], state'[s]>> \in AllowedTransitions]_vars

\* the transitive closure of depends_on, by repeated composition
RECURSIVE Closure(_, _)
Closure(R, n) ==
    IF n = 0 THEN R
    ELSE LET C == Closure(R, n - 1)
         IN  C \cup {<<xy[1][1], xy[2][2]>> : xy \in {z \in C \X C : z[1][2] = z[2][1]}}
DependsOn(cfg) ==
    {x \in (DOMAIN cfg) \X (DOMAIN cfg) : x[2] \in cfg[x[1]].depends_on}
\* t needs d, directly or through other tasks
Needs(cfg) == Closure(DependsOn(cfg), Cardinality(DOMAIN cfg))
HasCycle(cfg) == \E t \in DOMAIN cfg : <<t, t>> \in Needs(cfg)

\* C9: in the order emitted for a target every dependency of a listed task is
\* listed strictly before it, and in the parallel levels every dependency of a
\* task lies in a strictly earlier level.
C9_TopologicalSoundness ==
    /\ order.target # "none" =>
         \A i \in 1..Len(order.tasks) :
            \A d \in config[order.tasks[i]].depends_on :
               \E j \in 1..(i - 1) : order.tasks[j] = d
    /\ groups.done =>
         \A i \in 1..Len(groups.levels) :
            \A t \in groups.levels[i] :
               \A d \in config[t].depends_on :
                  \E j \in 1..(i - 1) : d \in groups.levels[j]

\* a chain of three tasks was ordered for its last task and split in three levels
C9_Witness ==
    /\ order.target # "none"
    /\ Len(order.tasks) = 3
    /\ config[order.tasks[3]].depends_on # {}
    /\ groups.done
    /\ Len(groups.levels) = 3

\* C10: from_config answers CycleDetected exactly for the task sets whose
\* depends_on relation has a directed cycle (a self-dependency included).
C10_CycleDetection ==
    dag_result # "none" =>
        (dag_result = "CycleDetected" <=> HasCycle(config))

\* a task that depends on itself, and on nothing else in a cycle, was rejected
C10_Witness ==
    /\ dag_result = "CycleDetected"
    /\ \E t \in TaskNames :
         /\ t \in config[t].depends_on
         /\ \A u \in TaskNames \ {t} : config[u].depends_on = {}

\* ---- claims about the Executor
RECURSIVE SumHeld(_, _)
SumHeld(ps, s) ==
    IF ps = {} THEN 0
    ELSE LET p == CHOOSE x \in ps : TRUE
         IN  held[p][s] + SumHeld(ps \ {p}, s)
\* the tasks' acquire(s) calls that counted, minus their release(s) calls
Holders(s) == SumHeld(Procs, s)

\* C3: the ref_count of every registered service is the number of acquisitions
\* that tasks have made of it and not yet released.
C3_RefCountIsHolders ==
    \A s \in registered : ref_count[s] = Holders(s)

\* the runner was invoked at most r + 1 times (r + 1 is 2^32 for r = u32::MAX)
AtMostRetryPlus1(n, r) == r = U32Max \/ n <= r + 1
\* n is r + 1 (which no u32 is for r = u32::MAX)
IsRetryPlus1(n, r) == r # U32Max /\ n = r + 1

\* C5: of a task without service_deps (its result is the one of
\* execute_with_retry) the runner is invoked at most retry + 1 times; a Success
\* carries the number of the attempt that succeeded, which is the last
\* invocation; a Failed carries attempts = retry + 1 and the error text of the
\* last attempt.
C5_RetryContract ==
    \A t \in TaskNames : config[t].service_deps = <<>> =>
        /\ AtMostRetryPlus1(runs[t], config[t].retry)
        /\ wres[t].status = "Success" =>
              /\ wres[t].attempts = runs[t]
              /\ wres[t].attempts >= 1
        /\ wres[t].status = "Failed" =>
              /\ IsRetryPlus1(wres[t].attempts, config[t].retry)
              /\ runs[t] = wres[t].attempts
              /\ wres[t].output \in {ErrText(runs[t]), TimeoutText}

Started(t) == pc[t] # "idle"
Active(t) == pc[t] \notin {"idle", "w_done", "panicked"}
Returned == pc[Main] \in {"closing", "shut_loop", "closed"} \cup StopPcs
Sequential == call.mode \in {"seq", "args"} /\ order.target # "none"

\* C6: in a run for a target at most one task is active; the tasks started are
\* a prefix of the computed order, each started after its predecessor got a
\* Success; nothing is started after a Failed result; and the results returned
\* are the results of exactly the started tasks, in order.
C6_SequentialPrefix ==
    Sequential =>
        LET tasks == order.tasks
            n == Cardinality({i \in 1..Len(tasks) : Started(tasks[i])})
        IN  /\ Cardinality({t \in TaskNames : Active(t)}) <= 1
            /\ \A t \in TaskNames : Started(t) => \E i \in 1..n : tasks[i] = t
            /\ \A i \in 1..n : Started(tasks[i])
            /\ \A i \in 1..(n - 1) :
                  pc[tasks[i]] = "w_done" /\ wres[tasks[i]].status = "Success"
            /\ Returned =>
                  /\ results = [i \in 1..n |-> wres[tasks[i]]]
                  /\ \A i \in 1..n : results[i].task_name = tasks[i]
                  /\ n < Len(tasks) => results[n].status = "Failed"

\* the run stopped at the second of three tasks, which failed
C6_Witness ==
    /\ Sequential
    /\ pc[Main] = "closed"
    /\ Len(order.tasks) = 3
    /\ Len(results) = 2
    /\ results[1].status = "Success"
    /\ results[2].status = "Failed"
    /\ pc[order.tasks[3]] = "idle"

\* a task is done: it has its result, stored its output, released its services
Finished(t) ==
    /\ pc[t] = "w_done"
    /\ wres[t].status \in {"Success", "Failed"}
    /\ t \in DOMAIN outputs
    /\ outputs[t] = wres[t].output
    /\ \A s \in Services : held[t][s] = 0
Parallel == call.mode = "par" /\ groups.done
Levels == DOMAIN groups.levels

\* C7: in run_all a task of a level is started only when every task of every
\* earlier level is done.
C7_LevelBarrier ==
    Parallel =>
        \A i \in Levels, j \in Levels : i < j =>
            \A t \in groups.levels[i], u \in groups.levels[j] :
                Started(u) => Finished(t)

\* c, the task of the third level, runs after a, which needed two services in
\* the second level, got its result and released them
C7_Witness ==
    /\ Parallel
    /\ Len(groups.levels) = 3
    /\ config["a"].service_deps # <<>>
    /\ wres["a"].status = "Success"
    /\ Active("c")

\* C8: in run_all, once a task of a level has a Failed result no task of a
\* later level is started, and when run_all returns the report holds the result
\* of every task of that level, each run to its end.
C8_LevelDrained ==
    Parallel =>
        \A i \in Levels :
            (\E t \in groups.levels[i] : wres[t].status = "Failed") =>
                /\ \A j \in Levels : i < j =>
                      \A u \in groups.levels[j] : ~Started(u)
                /\ Returned =>
                      \A t \in groups.levels[i] :
                          /\ Finished(t)
                          /\ \E k \in 1..Len(results) : results[k] = wres[t]

\* run_all returned after a level in which one task failed and the other succeeded
C8_Witness ==
    /\ Parallel
    /\ Returned
    /\ \E i \in Levels :
          /\ i < Len(groups.levels)
          /\ \E t, u \in groups.levels[i] :
                /\ wres[t].status = "Failed"
                /\ wres[u].status = "Success"
                /\ \E k \in 1..Len(results) : results[k] = wres[u]

\* ---- claims about the order and the levels of the task graph
\* the tasks a target needs, by the transitive closure of depends_on
AncestorsOf(cfg, target) == {d \in DOMAIN cfg : <<target, d>> \in Needs(cfg)}
SeqToSet(s) == {s[i] : i \in 1..Len(s)}

\* C11: the tasks listed in the execution order for a target are the target
\* and all its transitive dependencies: no ancestor is missing, no other task
\* is listed, and no task is listed twice.
C11_ExactAncestorSet ==
    order.target # "none" =>
        /\ SeqToSet(order.tasks) = {order.target} \cup AncestorsOf(config, order.target)
        /\ \A i, j \in 1..Len(order.tasks) : order.tasks[i] = order.tasks[j] => i = j

\* the order of a target lists a task the target needs only through another task
C11_Witness ==
    /\ order.target # "none"
    /\ \E d \in SeqToSet(order.tasks) \ {order.target} :
          d \notin config[order.target].depends_on

\* the number of tasks on the longest dependency chain that ends in t
RECURSIVE ChainLength(_, _)
ChainLength(cfg, t) ==
    IF cfg[t].depends_on = {} THEN 1
    ELSE LET below == {ChainLength(cfg, d) : d \in cfg[t].depends_on}
         IN  1 + CHOOSE m \in below : \A k \in below : k <= m
LongestChain(cfg) ==
    LET all == {ChainLength(cfg, t) : t \in DOMAIN cfg}
    IN  CHOOSE m \in all : \A k \in all : k <= m

\* C12: for an acyclic graph parallel_groups puts every task in exactly one
\* level, the number of levels is the number of tasks on the longest dependency
\* chain, and every task is in the earliest level its dependencies allow (the
\* level whose number is the length of the longest chain that ends in it).
C12_LevelsPartition ==
    groups.done =>
        /\ \A t \in TaskNames :
              Cardinality({i \in 1..Len(groups.levels) : t \in groups.levels[i]}) = 1
        /\ \A i \in 1..Len(groups.levels) : groups.levels[i] \subseteq TaskNames
        /\ Len(groups.levels) = LongestChain(config)
        /\ \A i \in 1..Len(groups.levels) :
              \A t \in groups.levels[i] : i = ChainLength(config, t)

\* two levels: two independent tasks, and one task that depends on one of them
C12_Witness ==
    /\ groups.done
    /\ Len(groups.levels) = 2
    /\ Cardinality(groups.levels[1]) = 2
    /\ Cardinality(groups.levels[2]) = 1

\* ---- claims about pipes, join nodes, timeouts and service failures
\* what the Pipe Store holds for a source: its output, or the empty text
StoredOrEmpty(store, source) ==
    IF source \in DOMAIN store THEN store[source] ELSE <<>>
\* the outputs stored for the first n sources, one after the other
RECURSIVE ConcatFirst(_, _, _)
ConcatFirst(sources, n, store) ==
    IF n = 0 THEN <<>>
    ELSE ConcatFirst(sources, n - 1, store) \o StoredOrEmpty(store, sources[n])
\* t reads the Pipe Store in this step
Collects(t) == pc[t] = "w_collect" /\ pc'[t] = "w_run"

\* C13: the stdin a task is given is the concatenation, in the order of
\* pipe_from, of the outputs the Pipe Store holds for its sources at the moment
\* the task starts, a source without an entry adding nothing; if the
\* concatenation is empty the task is given no stdin.
C13_StdinAssembly ==
    [][\A t \in TaskNames : Collects(t) =>
          LET text == ConcatFirst(config[t].pipe_from, Len(config[t].pipe_from), outputs)
          IN  stdin'[t] = IF text = <<>> THEN NoStdin ELSE SomeStdin(text)]_vars

\* c, which pipes from a and b, was given the output of a followed by the one of b
C13_Witness ==
    /\ pc["c"] = "w_run"
    /\ config["c"].pipe_from = <<"a", "b">>
    /\ stdin["c"] = SomeStdin(Stdout("a") \o Stdout("b"))

\* C14: a join task (join flag, or no command) never invokes a runner, its
\* result is always Success, and the output stored for it in the Pipe Store is
\* exactly the stdin assembled from its pipe sources (the empty text when it
\* was given none).
C14_JoinPassThrough ==
    \A t \in TaskNames : IsJoin(config[t]) =>
        /\ children[t].spawned = 0
        /\ wres[t] # NoResult => wres[t].status = "Success"
        /\ t \in DOMAIN outputs => outputs[t] = UnwrapOrEmpty(stdin[t])

\* run_task and run_task_with_args: the runs of the subgraph of a target
Subgraph == call.mode \in {"seq", "args"}
\* d has run: it has a result
HasRun(d) == wres[d] # NoResult
\* the outputs of the tasks that have run, by task
OutputsOfRun == [d \in {x \in TaskNames : HasRun(x)} |-> wres[d].output]
\* t has read the Pipe Store and is in execute_with_retry
HasCollected(t) == pc[t] = "w_run"

\* C15: in a run of the subgraph of a target, with or without positional
\* arguments, when a task starts the Pipe Store holds the output of each of
\* its dependencies that ran before it, so that a task that pipes from its
\* dependencies is given their outputs.
C15_SubgraphPipes ==
    Subgraph =>
        \A t \in TaskNames :
            /\ Started(t) =>
                  \A d \in config[t].depends_on : HasRun(d) =>
                      d \in DOMAIN outputs /\ outputs[d] = wres[d].output
            /\ (/\ HasCollected(t)
                /\ \A i \in 1..Len(config[t].pipe_from) :
                      config[t].pipe_from[i] \in config[t].depends_on) =>
                  UnwrapOrEmpty(stdin[t]) =
                      ConcatFirst(config[t].pipe_from, Len(config[t].pipe_from),
                                  OutputsOfRun)

\* the level parallel_groups put t in, and the tasks of the levels before it
LevelOf(t) == CHOOSE i \in Levels : t \in groups.levels[i]
EarlierLevels(t) == UNION {groups.levels[j] : j \in 1..(LevelOf(t) - 1)}

\* C16: in run_all the stdin assembled for a task holds only outputs stored by
\* tasks of earlier levels, never the output of a task of its own level, in
\* whatever order the tasks of a level start and finish: it is what the
\* outputs of the earlier levels alone make it.
C16_EarlierLevelsOnly ==
    Parallel =>
        \A t \in TaskNames : HasCollected(t) =>
            UnwrapOrEmpty(stdin[t]) =
                ConcatFirst(config[t].pipe_from, Len(config[t].pipe_from),
                            [d \in EarlierLevels(t) |-> wres[d].output])

\* C17: when the command of a local task with a timeout runs longer than the
\* timeout the attempt fails with Timeout (a task without a timeout never
\* does), and once the attempt is reported no child spawned for it still runs.
C17_TimeoutLeavesNoChild ==
    \A t \in TaskNames :
        /\ wres[t].output = TimeoutText =>
              config[t].timeout /\ wres[t].status = "Failed"
        /\ children[t].running = 0

\* the errors of ServiceManager::acquire
AcquireErrors ==
    {"err_unregistered", "err_failed", "err_stopping", "err_preflight",
     "err_spawn", "err_timeout", "err_exited"}
\* the result of a task whose acquire loop ended in the error e
FailedBy(t, e) == TaskResult(t, "Failed", 0, <<e>>)

\* C18: when the acquire of a service_dep of a task fails (readiness timeout,
\* preflight failure, service Failed or Stopping, service not registered, ...)
\* the result of the task is Failed, with zero attempts and the error of the
\* acquire as output, and it stays so: no runner is invoked for the task.
C18_AcquireFailureFailsTask ==
    [][\A t \in TaskNames :
          /\ (pc[t] = "acq_done" /\ acq_result[t] # "ok" /\ pc'[t] # "acq_done") =>
                /\ acq_result[t] \in AcquireErrors
                /\ wres'[t] = FailedBy(t, acq_result[t])
          /\ (\E e \in AcquireErrors : wres[t] = FailedBy(t, e)) =>
                /\ wres'[t] = wres[t]
                /\ pc'[t] \notin {"w_collect", "w_run"}
                /\ runs'[t] = 0
                /\ children'[t].spawned = 0]_vars

\* a task whose service did not become ready in time is done, and has not run
C18_Witness ==
    \E t \in TaskNames :
        /\ pc[t] = "w_done"
        /\ wres[t] = FailedBy(t, "err_timeout")
        /\ t \in DOMAIN outputs
        /\ runs[t] = 0

\* the acquire loop of t ended in an error
AcquireFailed(t) == \E e \in AcquireErrors : wres[t] = FailedBy(t, e)
\* u has acquired s (acquire returned Ok) and has not begun to release: s is
\* behind it in its acquire loop, or the loop is over and the task runs
HoldsAcquired(u, s) ==
    /\ wres[u] = NoResult
    /\ \/ /\ pc[u] \in {"w_collect", "w_run"}
          /\ \E j \in 1..Len(config[u].service_deps) : config[u].service_deps[j] = s
       \/ /\ pc[u] \notin {"idle", "w_collect", "w_run"}
          /\ \E j \in 1..(dep_i[u] - 1) : config[u].service_deps[j] = s

\* C19: in run_all the failure of an acquire in one task fails that task only:
\* no step of the failed task takes a service that a sibling has acquired, and
\* not yet released, out of Ready.
C19_SiblingKeepsService ==
    [][Parallel =>
          \A t, u \in TaskNames : \A s \in registered :
              (/\ t # u
               /\ AcquireFailed(t)
               /\ pc'[t] # pc[t]
               /\ HoldsAcquired(u, s)
               /\ state[s] = "Ready") => state'[s] = "Ready"]_vars

\* p is in the polling loop of wait_for_ready
Polling(p) == pc[p] \in {"wait_loop", "wait_check"}
\* acquire has returned to p the error of a service that did not become ready
\* in time, and the service is Failed
TimedOut(p) ==
    /\ pc[p] = "acq_done"
    /\ acq_result[p] = "err_timeout"
    /\ state[cur[p]] = "Failed"

\* C20: an acquire of a Managed service that waits for readiness does not
\* block forever: unless the readiness check succeeds or the process is seen to
\* have exited, it returns the error of a service that failed to become ready
\* in time, and the state of the service is then Failed.
C20_AcquireTimesOut ==
    \A p \in Clients :
        (Polling(p) /\ IsManaged(cur[p])) ~>
            \/ pc[p] = "acq_return"
            \/ acq_result[p] = "err_exited"
            \/ TimedOut(p)

\* ---- claims about External services, shutdown and restart
Externals == {s \in registered : ~IsManaged(s)}

\* C21: for an External service no acquire, release or shutdown spawns or
\* kills a process or keeps a child handle, and its state never becomes
\* Stopping, nor Stopped again once it has left Stopped, also when its
\* ref_count drops to zero.
C21_ExternalNeverStops ==
    [][\A s \in Externals :
          /\ \A i \in Pids : procs'[i].svc # s
          /\ child'[s] = NoChild
          /\ state'[s] # "Stopping"
          /\ state[s] # "Stopped" => state'[s] # "Stopped"]_vars

\* an External service is Ready with ref_count zero after its consumers
\* released it and shutdown has returned
C21_Witness ==
    /\ "ext" \in registered
    /\ state["ext"] = "Ready"
    /\ ref_count["ext"] = 0
    /\ pc[Main] = "closed"
    /\ \E p \in Clients : pc[p] = "rel_done"

\* C22: after shutdown() has returned, called with no acquire in progress,
\* every registered Managed service is Stopped and holds no child handle,
\* whatever its state and ref_count were before the call.
C22_ShutdownStopsAll ==
    pc[Main] = "closed" =>
        \A s \in registered : IsManaged(s) =>
            /\ state[s] = "Stopped"
            /\ child[s] = NoChild
            /\ local_child[Main] = NoChild

\* C23: an acquire() that finds a Managed service Stopped, while no other call
\* on the manager is in progress and every other consumer has released its
\* references, starts a fresh cycle: the step that marks it
\* Starting finds no child handle left over from the previous cycle, and the
\* handle start_service stores is the one of the process it has just spawned.
C23_FreshCycle ==
    [][\A p \in Clients :
          /\ ( /\ pc[p] = "start_mark"
               /\ pc'[p] # "start_mark"
               /\ IsManaged(cur[p])
               /\ state[cur[p]] = "Stopped"
               /\ \A q \in Clients \ {p} : pc[q] = "idle" /\ held[q][cur[p]] = 0 )
             => /\ state'[cur[p]] = "Starting"
                /\ pc'[p] = "start_spawn"
                /\ child[cur[p]] = NoChild
          /\ ( pc[p] = "start_store" /\ pc'[p] # "start_store" )
             => /\ child'[cur[p]] = local_child[p]
                /\ procs[local_child[p]].svc = cur[p]]_vars

SessionsOf(d) == {i \in Sids : opened[i].dest = d}

\* C24: under any interleaving of concurrent get_session calls for one
\* destination, at most one SSH session is ever opened for that destination,
\* and every caller that holds a session for it holds that same session.
C24_OneSessionPerDestination ==
    \A d \in Dests :
        /\ Cardinality(SessionsOf(d)) <= 1
        /\ \A p, q \in Clients :
              ( /\ pc[p] = "ssh_got" /\ key[p].dest = d
                /\ pc[q] = "ssh_got" /\ key[q].dest = d ) => session[p] = session[q]

\* C25: after the close_sessions of the cleanup the session cache is empty and
\* every SSH session opened during the run is closed: no Arc of it is alive.
C25_AllSessionsClosed ==
    pc[Main] = "closed" =>
        /\ \A d \in Dests : ssh_sessions[d] = NoSession
        /\ \A i \in Sids : ~IsOpen(i)

C27_CleanupOnEveryExit ==
    (pc[Main] \in Exits /\ dag_result = "Ok") => pc[Main] = "closed"

\* C28: a run of a target with fewer positional arguments than it has
\* parameters without default, zero arguments included, is refused: the
\* driver does not get past the arity check and no task of the chain is
\* executed.
C28_ArityError ==
    ( /\ dag_result = "Ok"
      /\ call.mode \in {"seq", "args"}
      /\ call.nargs < RequiredCount(config[call.target].parameters) )
    => /\ \A t \in TaskNames : runs[t] = 0
       /\ pc[Main] \in {"new", "run", "aborted"}

\* C29: in a run with positional arguments the bound values go into the
\* target's command only: every ancestor that has run was given its own
\* default for each of its parameters, also for a parameter that has the name
\* of a parameter of the target.
C29_BindingsOnlyInTarget ==
    call.mode = "args" =>
        \A t \in TaskNames \ {call.target} :
            runs[t] > 0 =>
                \A nm \in DOMAIN task_bindings[t] :
                    task_bindings[t][nm] = DefaultValue(t)

\* what the env vars have to be with a tunnel on local_port
TunnelEnv(ready, local_port) ==
    [ready    |-> "1",
     host     |-> "127.0.0.1",
     port     |-> local_port,
     url      |-> IF ready.type = "http"
                  THEN [scheme |-> ready.url.scheme, host |-> "127.0.0.1",
                        port |-> local_port, path |-> "", query |-> NoQuery]
                  ELSE NoUrl,
     base_url |-> IF ready.type = "http"
                  THEN [scheme |-> ready.url.scheme, host |-> "127.0.0.1",
                        port |-> local_port, path |-> "", query |-> NoQuery]
                  ELSE NoUrl]

\* C30: the env vars acquire() returns, to the consumer that drove the start
\* and to one that found the service Ready: with a tunnel active _HOST is
\* 127.0.0.1, _PORT the tunnel's local port and, for an HTTP check, _URL and
\* _BASE_URL are scheme://127.0.0.1:<local_port>; with no tunnel they are the
\* host, port and base URL of the readiness check.
C30_EnvVarsFollowTunnel ==
    [][\A p \in Clients :
          (pc[p] \in {"env_started", "env_ready"} /\ pc'[p] # pc[p]) =>
              IF ready_check.type \in {"none", "cmd"}
              THEN env_vars'[p].host = "none" /\ env_vars'[p].url = NoUrl
              ELSE IF port_forward # NoPort
                   THEN env_vars'[p] = TunnelEnv(ready_check, port_forward)
                   ELSE /\ env_vars'[p].host = HostPort(ready_check).host
                        /\ env_vars'[p].port = HostPort(ready_check).port
                        /\ env_vars'[p].url = BaseUrl(ready_check)
                        /\ env_vars'[p].base_url = BaseUrl(ready_check)]_vars

\* ---- claims about the services of a task, the Pipe Store and the runners
\* the service_deps of a task, as a set
ServiceDeps(t) == {config[t].service_deps[j] : j \in 1..Len(config[t].service_deps)}
\* the runner of t is being invoked
InRunner(t) == pc[t] = "w_run"

\* C31: for every task the Executor runs, through run(target) without
\* arguments, run(target) with arguments or run_all, each service_dep of the
\* task has been acquired by it and is Ready while its runner is invoked, and
\* the task holds none of them once it is done.
C31_ServicesAroundRunner ==
    \A t \in TaskNames :
        /\ InRunner(t) =>
              \A s \in ServiceDeps(t) : held[t][s] > 0 /\ state[s] = "Ready"
        /\ pc[t] = "w_done" =>
              \A s \in ServiceDeps(t) \cap registered : held[t][s] <= 0

\* C32: whenever the state of a Managed local service is Stopped, no process
\* the Service Manager spawned for it is still running, under any
\* interleaving of concurrent acquire, release and shutdown calls.
C32_StoppedMeansNoProcess ==
    \A s \in registered :
        (IsManaged(s) /\ state[s] = "Stopped") => LiveProcs(s) = {}

\* C33: whenever the state of a Managed local service is Ready, the Service
\* Manager holds the handle of the process spawned for the current cycle: no
\* readiness polling of an acquirer sets the state to Ready after
\* stop_service has taken the handle away.
C33_ReadyHoldsHandle ==
    \A s \in registered :
        (IsManaged(s) /\ state[s] = "Ready") => child[s] # NoChild

\* ---- claims about the readiness target of a remote service
\* the check polls the local end of the tunnel
PollsTunnel(check, local_port) ==
    HostPort(check).some => /\ HostPort(check).host = "127.0.0.1"
                            /\ HostPort(check).port = local_port
\* p waits in wait_for_ready
Waits(p) == pc[p] = "env_wait"

\* C34: a task that acquires a service already in Starting waits on the same
\* readiness target as the task driving the start; for a tunneled remote
\* service that is the rewritten check on 127.0.0.1:<local_port>.
C34_SharedReadinessTarget ==
    \A p, q \in Clients :
        (Waits(p) /\ Waits(q)) =>
            /\ polled[p] = polled[q]
            /\ port_forward # NoPort => PollsTunnel(polled[p], port_forward)

\* ---- claims about the Pipe Store
\* C35: when a task fails because the acquire of one of its service_deps
\* failed, nothing is written to the Pipe Store under the name of the task: no
\* step of that task changes the store.
C35_NoStoreAfterAcquireFailure ==
    [][\A t \in TaskNames :
          (AcquireFailed(t) /\ pc'[t] # pc[t]) => outputs' = outputs]_vars

\* the keys a step adds to the Pipe Store
NewKeys == DOMAIN outputs' \ DOMAIN outputs

\* C36: within one run (run(target) or run_all) each task is executed at most
\* once: a task that is done is not started again; each key of the Pipe Store
\* is written at most once, by the task of that name as it finishes, and an
\* entry once written is never changed.
C36_StoreWrittenOnce ==
    [][/\ \A t \in TaskNames : pc[t] = "w_done" => pc'[t] = "w_done"
       /\ \A k \in DOMAIN outputs : k \in DOMAIN outputs' /\ outputs'[k] = outputs[k]
       /\ Cardinality(NewKeys) <= 1
       /\ \A k \in NewKeys : /\ pc[k] = "w_store" /\ pc'[k] = "w_done"
                              /\ outputs'[k] = wres[k].output]_vars

\* a run has ended in which three tasks have written their entries
C36_Witness ==
    /\ pc[Main] = "closing"
    /\ Cardinality(DOMAIN outputs) >= 3
    /\ \A t \in DOMAIN outputs : pc[t] = "w_done" /\ runs[t] >= 1

\* ---- claims about the runners
\* the execution of the K8s task of p has ended
ExecuteEnded(p) == pc[p] = "idle" /\ k8s_result[p] # "none"

\* C37: every kubectl port-forward process started for a K8s task is killed
\* when the execution of the task ends, on success and on every failure path
\* (Job, Exec or Apply error, wait_for failure, failure to establish a later
\* forward).
C37_ForwardsKilled ==
    \A p \in Clients : ExecuteEnded(p) => forwarders[p] = 0

\* C38: for a local shebang task the temporary script file exists from before
\* the interpreter is spawned until the child has exited, and no longer exists
\* after the attempt has ended, in success, failure or timeout: a script file
\* of a task exists only while an attempt of the task is under way.
C38_ScriptFileRemoved ==
    \A t \in TaskNames :
        (config[t].shebang /\ ~InRunner(t)) => children[t].scripts = 0

\* ---- claims about the key of the SSH session cache
\* C39: two SSH configs that differ in user, host or port map to different
\* cache keys: get_session never returns, for a config, a session that was
\* opened to another destination or to another port of the same host.
C39_SessionMatchesConfig ==
    \A p \in Clients : pc[p] = "ssh_got" => opened[session[p]] = key[p]

\* ---- claims about the order of the releases
\* t releases the i-th of its service_deps in this step
Releases(t, i) ==
    held'[t][config[t].service_deps[i]] < held[t][config[t].service_deps[i]]

\* C40: after the runner of a task has returned, the Executor releases the
\* service_deps of the task in the reverse of the order in which it acquired
\* them: a service is released only when none acquired after it is still held.
C40_ReverseReleaseOrder ==
    [][\A t \in TaskNames : \A i \in 1..Len(config[t].service_deps) :
          (runs[t] > 0 /\ Releases(t, i)) =>
              \A j \in (i + 1)..Len(config[t].service_deps) :
                  held[t][config[t].service_deps[j]] <= 0]_vars

====
